---- MODULE Spec2Model ----
(***************************************************************************)
(* Model of the synthetic HHC-RSP instance generator                       *)
(* (Outputs&Codigo/PARTE3/15-gerador_instancias.py).                       *)
(*                                                                         *)
(* Numbers.  Coordinates are integers counting quarters of a microdegree   *)
(* (UnidadesPorMicrograu units per 1e-6 degree), so that round(x, 6) is a  *)
(* real rounding.  The enumerated coordinates lie within a few units of    *)
(* (0, 0); at that scale sin x = x, asin x = x and cos(lat) = 1 to the     *)
(* precision of the model, and the haversine distance is the Euclidean     *)
(* norm of (dlat, dlon) times a constant.  Distances are integers in       *)
(* tenths of that unit.  Probabilities are integers in percent.            *)
(*                                                                         *)
(* The global NumPy random stream (np.random) is a state in 0..RngMod-1    *)
(* advanced by a linear congruential step at every draw; np.random.seed(s) *)
(* sets the state to a function of s alone.                                *)
(***************************************************************************)
EXTENDS Integers, Sequences, FiniteSets, TLC

\* ------------------------------------------------------------------ bounds
MaxPacientes == 2
MaxDesvio == 5
RngMod == 64

\* --------------------------------------------------------------- constants
\* seed=None (seeds are naturals) and the float NaN (no coordinate of the
\* model comes near it), as integers so that they compare with numbers.
None == -1
NaN == -(10 ^ 6)

UnidadesPorMicrograu == 4

DIST_MODALIDADE == [AD2 |-> 70, AD3 |-> 30]

FREQ_VISITAS ==
    [AD2 |-> [min |-> 1, max |-> 3, unidade |-> "semanal"],
     AD3 |-> [min |-> 5, max |-> 7, unidade |-> "semanal"]]

TEMPO_SERVICO ==
    [AD2 |-> [min |-> 30, max |-> 60],
     AD3 |-> [min |-> 45, max |-> 90]]

DIST_JANELA == [manha |-> 40, tarde |-> 35, integral |-> 25]

\* The windows in hours of the day.
JANELAS_HORARIO_em_horas ==
    [manha |-> <<7, 12>>,
     tarde |-> <<13, 18>>,
     integral |-> <<7, 18>>]

JANELAS_HORARIO ==
    [manha |-> <<7 * 60, 12 * 60>>,
     tarde |-> <<13 * 60, 18 * 60>>,
     integral |-> <<7 * 60, 18 * 60>>]

CAPACIDADE_EQUIPE_MIN == 360
CAPACIDADE_EQUIPE_MAX == 480
VELOCIDADE_MEDIA == 25

CODIGOS_EQUIPE_AD ==
    [c \in {22, 46, 23, 77} |->
        CASE c = 22 -> "EMAD I"
          [] c = 46 -> "EMAD II"
          [] c = 23 -> "EMAP"
          [] c = 77 -> "EMAP-R"]

\* ------------------------------------------------------- the random stream
\* One step of the generator: every draw consumes exactly one step.
Avancar(s) == (13 * s + 11) % RngMod

\* np.random.seed(seed): the state becomes a function of the seed alone.
np_random_seed(seed) == seed % RngMod

\* np.random.random(): a value of [0, 1), here in percent (0..99).
np_random_random(s) ==
    LET t == Avancar(s) IN [val |-> (t * 100) \div RngMod, st |-> t]

\* np.random.randint(low, high): an integer of low..high-1.
np_random_randint(low, high, s) ==
    LET t == Avancar(s) IN [val |-> low + (t * (high - low)) \div RngMod, st |-> t]

\* np.random.normal(loc, scale): loc plus an offset.  Any offset has positive
\* density whatever the scale; the offsets enumerated are -MaxDesvio..MaxDesvio.
np_random_normal(loc, s) ==
    LET t == Avancar(s)
        z == ((t * (2 * MaxDesvio + 1)) \div RngMod) - MaxDesvio
    IN  [val |-> IF loc = NaN THEN NaN ELSE loc + z, st |-> t]

\* ------------------------------------------------------------ pure helpers
RECURSIVE RaizInteira(_, _, _)
\* floor(sqrt(x)) by bisection on lo..hi (lo*lo <= x < (hi+1)*(hi+1)).
RaizInteira(x, lo, hi) ==
    IF lo >= hi THEN lo
    ELSE LET mid == (lo + hi + 1) \div 2
         IN  IF mid * mid <= x THEN RaizInteira(x, mid, hi)
             ELSE RaizInteira(x, lo, mid - 1)

sqrt(x) == RaizInteira(x, 0, 2000)

\* haversine(lon1, lat1, lon2, lat2): great-circle distance, in tenths of the
\* distance unit.
haversine(lon1, lat1, lon2, lat2) ==
    LET dlon == lon2 - lon1
        dlat == lat2 - lat1
        a == dlat * dlat + dlon * dlon
    IN  sqrt(100 * a)

\* distancia_para_tempo that returns hours.
distancia_para_horas(distancia_km) == distancia_km \div VELOCIDADE_MEDIA

distancia_para_tempo(distancia_km) == (distancia_km * 60) \div VELOCIDADE_MEDIA

\* round(x, 6): to the nearest microdegree, ties to the even microdegree.
round6(x) ==
    LET u == UnidadesPorMicrograu
        q == x \div u
        r == x % u
    IN  IF x = NaN THEN NaN
        ELSE IF 2 * r < u THEN q * u
        ELSE IF 2 * r > u THEN (q + 1) * u
        ELSE IF q % 2 = 0 THEN q * u ELSE (q + 1) * u

\* The choice with the share of AD3 as the threshold.
escolher_modalidade_pelo_ad3(r) ==
    IF r < DIST_MODALIDADE.AD3 THEN "AD2" ELSE "AD3"

\* sortear_modalidade, lines 251-254: the modality for the uniform draw r.
escolher_modalidade(r) ==
    IF r < DIST_MODALIDADE.AD2 THEN "AD2" ELSE "AD3"

sortear_modalidade(s) ==
    LET r == np_random_random(s)
    IN  [val |-> escolher_modalidade(r.val), st |-> r.st]

\* The choice with the shares compared one by one, not accumulated.
escolher_janela_sem_acumular(r) ==
    IF r < DIST_JANELA.manha THEN "manha"
    ELSE IF r < DIST_JANELA.tarde THEN "tarde"
    ELSE "integral"

\* sortear_janela_tempo, lines 267-272: the window for the uniform draw r.
escolher_janela(r) ==
    IF r < DIST_JANELA.manha THEN "manha"
    ELSE IF r < DIST_JANELA.manha + DIST_JANELA.tarde THEN "tarde"
    ELSE "integral"

sortear_janela_tempo(s) ==
    LET r == np_random_random(s)
    IN  [val |-> escolher_janela(r.val), st |-> r.st]

\* gerar_frequencia with the range of AD2 for every modality.
gerar_frequencia_sem_modalidade(modalidade, s) ==
    LET params == FREQ_VISITAS["AD2"]
        freq == np_random_randint(params.min, params.max + 1, s)
    IN  [val |-> <<freq.val, params.unidade>>, st |-> freq.st]

gerar_frequencia(modalidade, s) ==
    LET params == FREQ_VISITAS[modalidade]
        freq == np_random_randint(params.min, params.max + 1, s)
    IN  [val |-> <<freq.val, params.unidade>>, st |-> freq.st]

\* gerar_tempo_servico with the range of AD3 for every modality.
gerar_tempo_servico_sem_modalidade(modalidade, s) ==
    LET params == TEMPO_SERVICO["AD3"]
    IN  np_random_randint(params.min, params.max + 1, s)

gerar_tempo_servico(modalidade, s) ==
    LET params == TEMPO_SERVICO[modalidade]
    IN  np_random_randint(params.min, params.max + 1, s)

\* ---------------------------------------------------------------- registry
\* A coordinate field of tbEstabelecimento is text: a decimal number written
\* with a comma or a point, text that is no number, or missing (NaN).
Texto(sep, v) == [tipo |-> "numero", sep |-> sep, v |-> v]
Lixo == [tipo |-> "lixo", sep |-> "", v |-> 0]
Faltante == [tipo |-> "faltante", sep |-> "", v |-> 0]

\* An empty field of a table read with dtype=str (pandas holds NaN for it).
Vazio == ""

\* df[col].str.replace(',', '.'): missing stays missing.
str_replace_virgula(txt) ==
    IF txt.tipo = "numero" /\ txt.sep = "," THEN [txt EXCEPT !.sep = "."] ELSE txt

\* pd.to_numeric(..., errors='coerce') of a coordinate text: a decimal comma
\* does not parse.
to_numeric(txt) ==
    IF txt.tipo = "numero" /\ txt.sep = "." THEN txt.v ELSE NaN

\* pd.to_numeric(..., errors='coerce') of TP_EQUIPE: the text of an integer,
\* or text that is none (here a negative code).
to_numeric_codigo(txt) == IF txt >= 0 THEN txt ELSE NaN

SP == <<3, 5, 5, 0, 3, 0>>
RJ == <<3, 3, 0, 4, 5, 5>>

\* str.startswith
startswith(texto, prefixo) ==
    /\ Len(texto) >= Len(prefixo)
    /\ SubSeq(texto, 1, Len(prefixo)) = prefixo

LinhaEquipe(mun, unidade, tp, equipe, desativacao) ==
    [CO_MUNICIPIO |-> mun, CO_UNIDADE |-> unidade, TP_EQUIPE |-> tp,
     CO_EQUIPE |-> equipe, DT_DESATIVACAO |-> desativacao]

LinhaEstab(unidade, lat, lon) ==
    [CO_UNIDADE |-> unidade, NU_LATITUDE |-> lat, NU_LONGITUDE |-> lon]

\* The facility table of the enumerated registries.
TabelaEstab ==
    << LinhaEstab("u1", Texto(",", -9), Texto(",", 6)),
       LinhaEstab("u2", Texto(".", 7), Texto(",", -3)),
       LinhaEstab("u3", Texto(",", 0), Texto(",", 5)),
       LinhaEstab("u4", Lixo, Texto(",", 5)),
       LinhaEstab("u5", Texto(",", 2), Texto(".", -10)),
       LinhaEstab("u6", Texto(",", 3), Faltante) >>

\* The team tables of the enumerated registries.
EquipesTres ==
    << LinhaEquipe(SP, "u1", 22, "e1", Vazio),
       LinhaEquipe(SP, "u3", 22, "e2", Vazio),
       LinhaEquipe(SP, "u2", 23, "e3", Vazio),
       LinhaEquipe(RJ, "u5", 46, "e4", Vazio),
       LinhaEquipe(SP, "u5", 46, "e5", Vazio),
       LinhaEquipe(SP, "u2", 77, "e6", "2024-01-31"),
       LinhaEquipe(SP, "u1", 70, "e7", Vazio) >>

EquipesUma ==
    << LinhaEquipe(SP, "u4", 22, "e1", Vazio),
       LinhaEquipe(SP, "u2", 77, "e2", Vazio),
       LinhaEquipe(SP, "u7", 22, "e3", Vazio),
       LinhaEquipe(SP, "u1", -1, "e4", Vazio) >>

EquipesSemCoordenadas ==
    << LinhaEquipe(SP, "u3", 22, "e1", Vazio),
       LinhaEquipe(SP, "u6", 46, "e2", Vazio) >>

EquipesSemAD ==
    << LinhaEquipe(SP, "u1", 70, "e1", Vazio),
       LinhaEquipe(RJ, "u2", 22, "e2", Vazio) >>

\* A file of the input directories: there with its rows, or not there.
Arquivo(linhas) == [existe |-> TRUE, linhas |-> linhas]
Ausente == [existe |-> FALSE, linhas |-> << >>]

Registros ==
    { [tbEquipe |-> Arquivo(e), tbEstabelecimento |-> Arquivo(TabelaEstab)] :
        e \in {EquipesTres, EquipesUma, EquipesSemCoordenadas, EquipesSemAD} }
    \cup { [tbEquipe |-> Ausente, tbEstabelecimento |-> Arquivo(TabelaEstab)],
           [tbEquipe |-> Arquivo(EquipesTres), tbEstabelecimento |-> Ausente] }

RECURSIVE merge_left(_, _)
\* df_equipes.merge(df_estab, on='CO_UNIDADE', how='left'): the rows of the left
\* table in order, each once per matching right row, or once with missing
\* coordinates when no right row matches.
merge_left(df_equipes, df_estab) ==
    IF df_equipes = << >> THEN << >>
    ELSE LET e == Head(df_equipes)
             m == SelectSeq(df_estab, LAMBDA r : r.CO_UNIDADE = e.CO_UNIDADE)
             junta(r) == [CO_MUNICIPIO |-> e.CO_MUNICIPIO, CO_UNIDADE |-> e.CO_UNIDADE,
                          TP_EQUIPE |-> e.TP_EQUIPE, CO_EQUIPE |-> e.CO_EQUIPE,
                          DT_DESATIVACAO |-> e.DT_DESATIVACAO,
                          NU_LATITUDE |-> r.NU_LATITUDE, NU_LONGITUDE |-> r.NU_LONGITUDE]
             semPar == [NU_LATITUDE |-> Faltante, NU_LONGITUDE |-> Faltante]
         IN  (IF m = << >> THEN << junta(semPar) >>
              ELSE [i \in 1..Len(m) |-> junta(m[i])])
             \o merge_left(Tail(df_equipes), df_estab)

\* filtrar_equipes without the filter on DT_DESATIVACAO.
filtrar_equipes_com_inativas(linhas) ==
    LET lidas == [i \in 1..Len(linhas) |->
                    [linhas[i] EXCEPT !.TP_EQUIPE = to_numeric_codigo(@)]]
        ad == SelectSeq(lidas, LAMBDA e : e.TP_EQUIPE \in DOMAIN CODIGOS_EQUIPE_AD)
    IN  SelectSeq(ad, LAMBDA e : startswith(e.CO_MUNICIPIO, <<3, 5>>))

\* carregar_equipes_emad, lines 347-357: the active home-care teams of the
\* state of Sao Paulo (municipio_codigo=None).
filtrar_equipes(linhas) ==
    LET lidas == [i \in 1..Len(linhas) |->
                    [linhas[i] EXCEPT !.TP_EQUIPE = to_numeric_codigo(@)]]
        ad == SelectSeq(lidas, LAMBDA e : e.TP_EQUIPE \in DOMAIN CODIGOS_EQUIPE_AD)
        ativas == SelectSeq(ad, LAMBDA e : e.DT_DESATIVACAO = Vazio)
    IN  SelectSeq(ativas, LAMBDA e : startswith(e.CO_MUNICIPIO, <<3, 5>>))

\* Only the rows without a coordinate removed: zeros stay.
remover_so_faltantes(conv) ==
    SelectSeq(conv, LAMBDA e : e.lat # NaN /\ e.lon # NaN)

\* carregar_equipes_emad, lines 393-394: dropna(subset=['lat', 'lon']), then
\* the rows with lat != 0 and lon != 0.
remover_sem_coordenadas(conv) ==
    LET validas == SelectSeq(conv, LAMBDA e : e.lat # NaN /\ e.lon # NaN)
    IN  SelectSeq(validas, LAMBDA e : e.lat # 0 /\ e.lon # 0)

\* carregar_equipes_emad, lines 361-405: the join with the facilities, the
\* conversion of the coordinates and the removal of the rows without valid ones.
juntar_coordenadas(df_equipes, estabelecimentos) ==
        LET unidades_necessarias == {df_equipes[i].CO_UNIDADE : i \in 1..Len(df_equipes)}
            df_estab == SelectSeq(estabelecimentos,
                                  LAMBDA r : r.CO_UNIDADE \in unidades_necessarias)
        IN  IF df_estab = << >> THEN [ok |-> FALSE, erro |-> "KeyError"]
            ELSE
            LET df == merge_left(df_equipes, df_estab)
                conv == [i \in 1..Len(df) |->
                           [CO_UNIDADE |-> df[i].CO_UNIDADE,
                            CO_EQUIPE |-> df[i].CO_EQUIPE,
                            TP_EQUIPE |-> df[i].TP_EQUIPE,
                            DT_DESATIVACAO |-> df[i].DT_DESATIVACAO,
                            lat |-> to_numeric(str_replace_virgula(df[i].NU_LATITUDE)),
                            lon |-> to_numeric(str_replace_virgula(df[i].NU_LONGITUDE))]]
                naoZero == remover_sem_coordenadas(conv)
            IN  [ok |-> TRUE,
                 df |-> [i \in 1..Len(naoZero) |->
                           [CO_UNIDADE |-> naoZero[i].CO_UNIDADE,
                            CO_EQUIPE |-> naoZero[i].CO_EQUIPE,
                            TP_EQUIPE |-> naoZero[i].TP_EQUIPE,
                            DT_DESATIVACAO |-> naoZero[i].DT_DESATIVACAO,
                            lat |-> naoZero[i].lat,
                            lon |-> naoZero[i].lon,
                            TIPO_EQUIPE_NOME |-> CODIGOS_EQUIPE_AD[naoZero[i].TP_EQUIPE]]]]

\* carregar_equipes_emad that takes a missing file for a table without teams.
carregar_equipes_emad_tolerante(arq) ==
    IF ~arq.tbEquipe.existe \/ ~arq.tbEstabelecimento.existe
    THEN [ok |-> TRUE, df |-> << >>]
    ELSE juntar_coordenadas(filtrar_equipes(arq.tbEquipe.linhas),
                            arq.tbEstabelecimento.linhas)

\* carregar_equipes_emad(municipio_codigo=None): the loaded table, or the
\* exception raised.
carregar_equipes_emad(arq) ==
    IF ~arq.tbEquipe.existe THEN [ok |-> FALSE, erro |-> "FileNotFoundError"]
    ELSE IF ~arq.tbEstabelecimento.existe
         THEN [ok |-> FALSE, erro |-> "FileNotFoundError"]
         ELSE juntar_coordenadas(filtrar_equipes(arq.tbEquipe.linhas),
                                 arq.tbEstabelecimento.linhas)

\* ------------------------------------------------------------ demographics
\* The demographic file: missing, or the populacao_idosa of each sector.
Demografias == {Ausente, Arquivo(<<0, 3>>), Arquivo(<<5, 0, 2>>)}

carregar_setores_censitarios(arquivo) ==
    IF ~arquivo.existe THEN [ok |-> FALSE, erro |-> "FileNotFoundError"]
    ELSE [ok |-> TRUE, df |-> SelectSeq(arquivo.linhas, LAMBDA p : p > 0)]

\* ------------------------------------------------------------- generation
RECURSIVE Soma(_)
Soma(xs) == IF xs = << >> THEN 0 ELSE Head(xs) + Soma(Tail(xs))

\* Series.mean(): NaN for an empty column.
mean(xs) == IF xs = << >> THEN NaN ELSE Soma(xs) \div Len(xs)

\* df.head(n)
head(df, n) == SubSeq(df, 1, IF n < Len(df) THEN n ELSE Len(df))

\* The priority with the case of AD3 left out.
prioridade_sem_ad3(modalidade) ==
    IF modalidade = "AD2" THEN 2 ELSE 1

\* gerar_pacientes, line 493: 3 if AD3 else (2 if AD2 else 1).
prioridade_de(modalidade) ==
    IF modalidade = "AD3" THEN 3
    ELSE IF modalidade = "AD2" THEN 2 ELSE 1

RECURSIVE gerar_pacientes_atributos_antes(_, _, _, _, _)
\* The loop of gerar_pacientes with the attributes drawn before the coordinates.
gerar_pacientes_atributos_antes(i, n_pacientes, centro_lat, centro_lon, s) ==
    IF i >= n_pacientes THEN [pacientes |-> << >>, st |-> s, sorteios |-> << >>]
    ELSE
    LET modalidade == sortear_modalidade(s)
        janela_tipo == sortear_janela_tempo(modalidade.st)
        janela == JANELAS_HORARIO[janela_tipo.val]
        freq == gerar_frequencia(modalidade.val, janela_tipo.st)
        tempo_servico == gerar_tempo_servico(modalidade.val, freq.st)
        lat == np_random_normal(centro_lat, tempo_servico.st)
        lon == np_random_normal(centro_lon, lat.st)
        paciente ==
            [id |-> i + 1,
             lat |-> round6(lat.val),
             lon |-> round6(lon.val),
             modalidade |-> modalidade.val,
             janela_inicio |-> janela[1],
             janela_fim |-> janela[2],
             frequencia |-> freq.val[1],
             frequencia_unidade |-> freq.val[2],
             tempo_servico |-> tempo_servico.val,
             prioridade |-> prioridade_de(modalidade.val)]
        resto == gerar_pacientes_atributos_antes(i + 1, n_pacientes, centro_lat,
                                                 centro_lon, lon.st)
    IN  [pacientes |-> << paciente >> \o resto.pacientes,
         st |-> resto.st,
         sorteios |-> << <<i + 1, "modalidade">>, <<i + 1, "janela">>,
                         <<i + 1, "frequencia">>, <<i + 1, "tempo_servico">>,
                         <<i + 1, "lat">>, <<i + 1, "lon">> >> \o resto.sorteios]

RECURSIVE gerar_pacientes_de(_, _, _, _, _)
\* The loop of gerar_pacientes from index i on, the stream in state s: the
\* patients, the state the stream is left in, and the draws in the order made.
gerar_pacientes_de(i, n_pacientes, centro_lat, centro_lon, s) ==
    IF i >= n_pacientes THEN [pacientes |-> << >>, st |-> s, sorteios |-> << >>]
    ELSE
    LET lat == np_random_normal(centro_lat, s)
        lon == np_random_normal(centro_lon, lat.st)
        modalidade == sortear_modalidade(lon.st)
        janela_tipo == sortear_janela_tempo(modalidade.st)
        janela == JANELAS_HORARIO[janela_tipo.val]
        freq == gerar_frequencia(modalidade.val, janela_tipo.st)
        tempo_servico == gerar_tempo_servico(modalidade.val, freq.st)
        paciente ==
            [id |-> i + 1,
             lat |-> round6(lat.val),
             lon |-> round6(lon.val),
             modalidade |-> modalidade.val,
             janela_inicio |-> janela[1],
             janela_fim |-> janela[2],
             frequencia |-> freq.val[1],
             frequencia_unidade |-> freq.val[2],
             tempo_servico |-> tempo_servico.val,
             prioridade |-> prioridade_de(modalidade.val)]
        resto == gerar_pacientes_de(i + 1, n_pacientes, centro_lat, centro_lon,
                                    tempo_servico.st)
    IN  [pacientes |-> << paciente >> \o resto.pacientes,
         st |-> resto.st,
         sorteios |-> << <<i + 1, "lat">>, <<i + 1, "lon">>, <<i + 1, "modalidade">>,
                         <<i + 1, "janela">>, <<i + 1, "frequencia">>,
                         <<i + 1, "tempo_servico">> >> \o resto.sorteios]

\* gerar_pacientes that runs its loop again and keeps the second result.
gerar_pacientes_de_novo(n_pacientes, setores_df, centro_lat, centro_lon, s) ==
    LET a == gerar_pacientes_de(0, n_pacientes, centro_lat, centro_lon, s)
        b == gerar_pacientes_de(0, n_pacientes, centro_lat, centro_lon, a.st)
    IN  [pacientes |-> b.pacientes, st |-> b.st, sorteios |-> a.sorteios \o b.sorteios]

RECURSIVE DescartarSorteios(_, _)
DescartarSorteios(s, n) == IF n = 0 THEN s ELSE DescartarSorteios(Avancar(s), n - 1)

\* gerar_pacientes that first draws a sector for each of the n patients.
gerar_pacientes_sorteando_setores(n_pacientes, setores_df, centro_lat, centro_lon, s) ==
    gerar_pacientes_de(0, n_pacientes, centro_lat, centro_lon,
                       DescartarSorteios(s, n_pacientes))

\* gerar_pacientes that draws a sector first when the demographic table is there.
gerar_pacientes_por_setor(n_pacientes, setores_df, centro_lat, centro_lon, s) ==
    gerar_pacientes_de(0, n_pacientes, centro_lat, centro_lon,
                       IF setores_df # << >> THEN Avancar(s) ELSE s)

\* gerar_pacientes(n_pacientes, setores_df, centro_lat, centro_lon)
gerar_pacientes(n_pacientes, setores_df, centro_lat, centro_lon, s) ==
    gerar_pacientes_de(0, n_pacientes, centro_lat, centro_lon, s)

\* matriz[i, j] = v
Atribuir(matriz, i, j, v) == [matriz EXCEPT ![i][j] = v]

RECURSIVE PreencherDeposito(_, _, _, _, _)
\* The first loop of calcular_matriz_distancias, from patient position i on.
PreencherDeposito(matriz, i, dep_lat, dep_lon, pacientes) ==
    IF i > Len(pacientes) THEN matriz
    ELSE LET p == pacientes[i]
             tempo == distancia_para_tempo(haversine(dep_lon, dep_lat, p.lon, p.lat))
         IN  PreencherDeposito(Atribuir(Atribuir(matriz, 0, i, tempo), i, 0, tempo),
                               i + 1, dep_lat, dep_lon, pacientes)

\* The pairs (i, j) of patient positions in the order of the nested loops.
ParesEmOrdem(n) ==
    LET par(x) == <<((x - 1) \div n) + 1, ((x - 1) % n) + 1>>
    IN  [x \in 1..(n * n) |-> par(x)]

RECURSIVE PreencherParesSemEspelho(_, _, _)
\* PreencherPares without the assignment of line 540 (matriz[j+1, i+1] = tempo).
PreencherParesSemEspelho(matriz, pares, pacientes) ==
    IF pares = << >> THEN matriz
    ELSE LET i == Head(pares)[1]
             j == Head(pares)[2]
             p1 == pacientes[i]
             p2 == pacientes[j]
             tempo == distancia_para_tempo(haversine(p1.lon, p1.lat, p2.lon, p2.lat))
         IN  IF i < j
             THEN PreencherParesSemEspelho(Atribuir(matriz, i, j, tempo),
                                           Tail(pares), pacientes)
             ELSE PreencherParesSemEspelho(matriz, Tail(pares), pacientes)

RECURSIVE PreencherParesComVolta(_, _, _)
\* PreencherPares that also clears cell (i, j) when it comes to a pair i > j.
PreencherParesComVolta(matriz, pares, pacientes) ==
    IF pares = << >> THEN matriz
    ELSE LET i == Head(pares)[1]
             j == Head(pares)[2]
             p1 == pacientes[i]
             p2 == pacientes[j]
             tempo == distancia_para_tempo(haversine(p1.lon, p1.lat, p2.lon, p2.lat))
         IN  IF i < j
             THEN PreencherParesComVolta(
                      Atribuir(Atribuir(matriz, i, j, tempo), j, i, tempo),
                      Tail(pares), pacientes)
             ELSE IF i > j
             THEN PreencherParesComVolta(Atribuir(matriz, i, j, 0), Tail(pares), pacientes)
             ELSE PreencherParesComVolta(matriz, Tail(pares), pacientes)

RECURSIVE PreencherPares(_, _, _)
\* The second loop of calcular_matriz_distancias over the pairs given.
PreencherPares(matriz, pares, pacientes) ==
    IF pares = << >> THEN matriz
    ELSE LET i == Head(pares)[1]
             j == Head(pares)[2]
             p1 == pacientes[i]
             p2 == pacientes[j]
             tempo == distancia_para_tempo(haversine(p1.lon, p1.lat, p2.lon, p2.lat))
         IN  IF i < j
             THEN PreencherPares(Atribuir(Atribuir(matriz, i, j, tempo), j, i, tempo),
                                 Tail(pares), pacientes)
             ELSE PreencherPares(matriz, Tail(pares), pacientes)

\* calcular_matriz_distancias with the last team as the depot.
calcular_matriz_ultima_equipe(equipes, pacientes) ==
    LET n == Len(pacientes)
        zeros == [i \in 0..n |-> [j \in 0..n |-> 0]]
        dep_lat == equipes[Len(equipes)].lat
        dep_lon == equipes[Len(equipes)].lon
    IN  PreencherPares(PreencherDeposito(zeros, 1, dep_lat, dep_lon, pacientes),
                       ParesEmOrdem(n), pacientes)

\* calcular_matriz_distancias(equipes, pacientes), equipes not empty.
calcular_matriz_distancias(equipes, pacientes) ==
    LET n == Len(pacientes)
        zeros == [i \in 0..n |-> [j \in 0..n |-> 0]]
        dep_lat == equipes[1].lat
        dep_lon == equipes[1].lon
    IN  PreencherPares(PreencherDeposito(zeros, 1, dep_lat, dep_lon, pacientes),
                       ParesEmOrdem(n), pacientes)

\* matriz.tolist()
tolist(matriz) ==
    LET n == Cardinality(DOMAIN matriz) - 1
    IN  [i \in 1..(n + 1) |-> [j \in 1..(n + 1) |-> matriz[i - 1][j - 1]]]

\* One capacity drawn and given to every team.
SortearCapacidadeUnica(m, s) ==
    IF m = 0 THEN [capacidades |-> << >>, st |-> s]
    ELSE LET cap == np_random_randint(CAPACIDADE_EQUIPE_MIN, CAPACIDADE_EQUIPE_MAX + 1, s)
         IN  [capacidades |-> [i \in 1..m |-> cap.val], st |-> cap.st]

RECURSIVE SortearCapacidades(_, _)
\* The capacity loop of gerar_instancia: one draw per team, in team order.
SortearCapacidades(m, s) ==
    IF m = 0 THEN [capacidades |-> << >>, st |-> s]
    ELSE LET cap == np_random_randint(CAPACIDADE_EQUIPE_MIN, CAPACIDADE_EQUIPE_MAX + 1, s)
             resto == SortearCapacidades(m - 1, cap.st)
         IN  [capacidades |-> << cap.val >> \o resto.capacidades, st |-> resto.st]

\* MontarInstancia with the team count asked for in the metadata.
MontarInstanciaComPedido(cfg, n_eq, eqs, pacs, mat, capacidades, agora) ==
    [metadata |->
        [nome |-> cfg.nome,
         data_geracao |-> agora,
         n_pacientes |-> cfg.n_pacientes,
         n_equipes |-> cfg.n_equipes,
         municipio |-> None,
         seed |-> cfg.seed,
         fonte_equipes |-> "CNES/DATASUS Ago/2025 (tbEquipe202508)",
         fonte_demografia |-> "IBGE Censo 2022",
         codigos_equipe_ad |-> CODIGOS_EQUIPE_AD],
     equipes |->
        [i \in 1..Len(eqs) |->
            [id |-> i,
             codigo_unidade |-> eqs[i].CO_UNIDADE,
             codigo_equipe |-> eqs[i].CO_EQUIPE,
             tipo_codigo |-> eqs[i].TP_EQUIPE,
             tipo |-> IF eqs[i].TP_EQUIPE \in DOMAIN CODIGOS_EQUIPE_AD
                      THEN CODIGOS_EQUIPE_AD[eqs[i].TP_EQUIPE] ELSE "DESCONHECIDO",
             lat |-> eqs[i].lat,
             lon |-> eqs[i].lon,
             capacidade_diaria |-> capacidades[i]]],
     pacientes |-> pacs,
     matriz_tempos |-> tolist(mat)]

\* The instance dict assembled by gerar_instancia.
MontarInstancia(cfg, n_eq, eqs, pacs, mat, capacidades, agora) ==
    [metadata |->
        [nome |-> cfg.nome,
         data_geracao |-> agora,
         n_pacientes |-> cfg.n_pacientes,
         n_equipes |-> n_eq,
         municipio |-> None,
         seed |-> cfg.seed,
         fonte_equipes |-> "CNES/DATASUS Ago/2025 (tbEquipe202508)",
         fonte_demografia |-> "IBGE Censo 2022",
         codigos_equipe_ad |-> CODIGOS_EQUIPE_AD],
     equipes |->
        [i \in 1..Len(eqs) |->
            [id |-> i,
             codigo_unidade |-> eqs[i].CO_UNIDADE,
             codigo_equipe |-> eqs[i].CO_EQUIPE,
             tipo_codigo |-> eqs[i].TP_EQUIPE,
             tipo |-> IF eqs[i].TP_EQUIPE \in DOMAIN CODIGOS_EQUIPE_AD
                      THEN CODIGOS_EQUIPE_AD[eqs[i].TP_EQUIPE] ELSE "DESCONHECIDO",
             lat |-> eqs[i].lat,
             lon |-> eqs[i].lon,
             capacidade_diaria |-> capacidades[i]]],
     pacientes |-> pacs,
     matriz_tempos |-> tolist(mat)]

\* ------------------------------------------------------------ persistence
\* The text of a number, of None (JSON null) and of nothing else: strings are
\* written as they are.  A decimal text has a point: digitos are the digits
\* down to the sixth decimal place and alem those after it.
Numeral(ponto, neg, digitos, alem) ==
    [nulo |-> FALSE, ponto |-> ponto, neg |-> neg, digitos |-> digitos, alem |-> alem]
null == [nulo |-> TRUE, ponto |-> FALSE, neg |-> FALSE, digitos |-> 0, alem |-> 0]

Abs(x) == IF x < 0 THEN -x ELSE x

\* A float written with six decimal places ('%.6f').
repr_float_6casas(x) ==
    Numeral(TRUE, round6(x) < 0, Abs(round6(x)) \div UnidadesPorMicrograu, 0)

\* float.__repr__, which json.dump and to_csv use: the shortest decimal text
\* that reads back as the same float, with all the decimal places it takes.
repr_float(x) ==
    Numeral(TRUE, x < 0, Abs(x) \div UnidadesPorMicrograu, Abs(x) % UnidadesPorMicrograu)

\* int.__repr__; None is written as null (JSON) or as an empty cell (CSV).
repr_int(n) == IF n = None THEN null ELSE Numeral(FALSE, n < 0, Abs(n), 0)

\* float(text), int(text): the number a text reads back as.
ler_numero(t) ==
    IF t.nulo THEN None
    ELSE (IF t.neg THEN -1 ELSE 1) *
         (IF t.ponto THEN t.digitos * UnidadesPorMicrograu + t.alem ELSE t.digitos)

\* The keys of the team and patient dicts by the type of their values.
ChavesFloat == {"lat", "lon"}
ChavesStr == {"codigo_unidade", "codigo_equipe", "tipo", "modalidade", "frequencia_unidade"}

\* A value as json.dump and to_csv write it, by its type.
escrever_valor(chave, v) ==
    IF chave \in ChavesStr THEN v
    ELSE IF chave \in ChavesFloat THEN repr_float(v)
    ELSE repr_int(v)

\* A value as json.load reads it, or read_csv with the dtypes of the columns.
ler_valor(chave, t) == IF chave \in ChavesStr THEN t ELSE ler_numero(t)

escrever_registros(lista) ==
    [i \in 1..Len(lista) |->
        [c \in DOMAIN lista[i] |-> escrever_valor(c, lista[i][c])]]

ler_registros(lista) ==
    [i \in 1..Len(lista) |->
        [c \in DOMAIN lista[i] |-> ler_valor(c, lista[i][c])]]

\* The matrix is a list of lists of floats.
escrever_matriz(linhas) ==
    [i \in 1..Len(linhas) |-> [j \in 1..Len(linhas[i]) |-> repr_float(linhas[i][j])]]

ler_matriz(linhas) ==
    [i \in 1..Len(linhas) |-> [j \in 1..Len(linhas[i]) |-> ler_numero(linhas[i][j])]]

\* json.dump(instancia): numbers as their text, None as null, the keys of a
\* dict as strings.
json_dump(instancia) ==
    [metadata |->
        [instancia.metadata EXCEPT
            !.n_pacientes = repr_int(@),
            !.n_equipes = repr_int(@),
            !.municipio = repr_int(@),
            !.seed = repr_int(@),
            !.codigos_equipe_ad =
                [c \in {"22", "46", "23", "77"} |->
                    CASE c = "22" -> CODIGOS_EQUIPE_AD[22]
                      [] c = "46" -> CODIGOS_EQUIPE_AD[46]
                      [] c = "23" -> CODIGOS_EQUIPE_AD[23]
                      [] c = "77" -> CODIGOS_EQUIPE_AD[77]]],
     equipes |-> escrever_registros(instancia.equipes),
     pacientes |-> escrever_registros(instancia.pacientes),
     matriz_tempos |-> escrever_matriz(instancia.matriz_tempos)]

\* json.load of a document json.dump wrote: the keys of a dict stay strings.
json_load(documento) ==
    [metadata |->
        [documento.metadata EXCEPT
            !.n_pacientes = ler_numero(@),
            !.n_equipes = ler_numero(@),
            !.municipio = ler_numero(@),
            !.seed = ler_numero(@)],
     equipes |-> ler_registros(documento.equipes),
     pacientes |-> ler_registros(documento.pacientes),
     matriz_tempos |-> ler_matriz(documento.matriz_tempos)]

\* to_csv that loses the last row.
to_csv_sem_ultima(colunas, linhas) ==
    [colunas |-> IF linhas = << >> THEN << >> ELSE colunas,
     linhas |-> escrever_registros(SubSeq(linhas, 1, Len(linhas) - 1))]

\* pd.DataFrame(lista).to_csv(..., index=False): the column names, then the rows.
ColunasEquipes ==
    <<"id", "codigo_unidade", "codigo_equipe", "tipo_codigo", "tipo", "lat", "lon",
      "capacidade_diaria">>

ColunasPacientes ==
    <<"id", "lat", "lon", "modalidade", "janela_inicio", "janela_fim", "frequencia",
      "frequencia_unidade", "tempo_servico", "prioridade">>

RECURSIVE Inverter(_)
Inverter(xs) == IF xs = << >> THEN << >> ELSE Inverter(Tail(xs)) \o << Head(xs) >>

\* to_csv of the rows in reverse order.
to_csv_invertido(colunas, linhas) ==
    [colunas |-> IF linhas = << >> THEN << >> ELSE colunas,
     linhas |-> escrever_registros(Inverter(linhas))]

to_csv(colunas, linhas) ==
    [colunas |-> IF linhas = << >> THEN << >> ELSE colunas,
     linhas |-> escrever_registros(linhas)]

to_csv_matriz(linhas) ==
    [colunas |-> [j \in 1..Len(linhas) |-> j - 1], linhas |-> escrever_matriz(linhas)]

\* pd.read_csv of a table to_csv wrote, with the dtypes of its columns.
read_csv(tabela) == [colunas |-> tabela.colunas, linhas |-> ler_registros(tabela.linhas)]

read_csv_matriz(tabela) ==
    [colunas |-> tabela.colunas, linhas |-> ler_matriz(tabela.linhas)]

\* A file of the output directory: written whole, or cut short by a failed write.
Completo(dados) == [completo |-> TRUE, dados |-> dados]
Parcial == [completo |-> FALSE]

\* open(arquivo, 'w') and a write: the file is created or replaced.
Escrever(pasta, nome, conteudo) ==
    [x \in DOMAIN pasta \cup {nome} |-> IF x = nome THEN conteudo ELSE pasta[x]]

\* ------------------------------------------------------------------- calls
Config(nome, n_pacientes, n_equipes, seed) ==
    [nome |-> nome, n_pacientes |-> n_pacientes, n_equipes |-> n_equipes, seed |-> seed]

\* The patient counts of the in-code list (10 to 500) are cut to the bound.
Escalar(n) == IF n > MaxPacientes THEN MaxPacientes ELSE n

instancias_config ==
    << Config(<<"pequena_10">>, Escalar(10), 1, 42),
       Config(<<"pequena_20">>, Escalar(20), 2, 123),
       Config(<<"media_50">>, Escalar(50), 3, 456),
       Config(<<"media_100">>, Escalar(100), 5, 789),
       Config(<<"grande_200">>, Escalar(200), 8, 1000),
       Config(<<"grande_500">>, Escalar(500), 15, 2000) >>

\* The arguments of the direct calls of gerar_instancia that are enumerated.
Sementes == {None, 42}
PedidosEquipes == {1, 2}
Chamadas ==
    { Config(<<"inst", n, m, sd>>, n, m, sd) :
        n \in 0..MaxPacientes, m \in PedidosEquipes, sd \in Sementes }

\* What is run: the batch of gerar_conjunto_instancias, or one or two direct
\* calls of gerar_instancia, each followed by salvar_instancia in both formats.
Filas ==
    {instancias_config}
    \cup { <<a>> : a \in Chamadas }
    \cup { <<a, b>> : a \in Chamadas, b \in Chamadas }

\* The states the process-wide stream may be in when the program starts.
EstadosIniciais == {5, 40}

SemInstancia == [vazia |-> TRUE]
SemMatriz == [i \in {0} |-> [j \in {0} |-> 0]]
PastaVazia == [json |-> << >>, equipes |-> << >>, pacientes |-> << >>, matriz |-> << >>]

VARIABLES
    arquivos,     \* the registry files (CNES_DIR)
    np_random,    \* the state of the global random stream
    relogio,      \* datetime.now()
    fila,         \* the configurations to run
    k,            \* the configuration being run (position in fila)
    pc,           \* where the run is
    n_equipes,    \* gerar_instancia: the team count after the clamp
    equipes_df,   \* gerar_instancia: the teams carregar_equipes_emad returned
    equipes,      \* gerar_instancia: equipes_df.head(n_equipes)
    setores_df,   \* gerar_instancia: the demographic table, None when missing
    pacientes,    \* gerar_instancia: the patients
    matriz,       \* gerar_instancia: the matrix
    instancia,    \* the instance returned to the caller
    disco,        \* INSTANCIAS_DIR: the files written, by kind and name
    erro,         \* the exception that ended the run, "" when none
    historico,    \* the instances returned so far, with their call
    eventos       \* the seedings, draws and stages so far, in order

vars ==
    <<arquivos, np_random, relogio, fila, k, pc, n_equipes, equipes_df, equipes,
      setores_df, pacientes, matriz, instancia, disco, erro, historico, eventos>>

locais == <<n_equipes, equipes_df, equipes, setores_df, pacientes, matriz>>

cfg == fila[k]

Evento(tipo, oque, i) == [k |-> k, tipo |-> tipo, oque |-> oque, i |-> i]

Init ==
    /\ arquivos \in Registros
    /\ np_random \in EstadosIniciais
    /\ relogio = 0
    /\ fila \in Filas
    /\ k = 1
    /\ pc = "inicio"
    /\ n_equipes = 0
    /\ equipes_df = << >>
    /\ equipes = << >>
    /\ setores_df = << >>
    /\ pacientes = << >>
    /\ matriz = SemMatriz
    /\ instancia = SemInstancia
    /\ disco = PastaVazia
    /\ erro = ""
    /\ historico = << >>
    /\ eventos = << >>

\* semear that mixes the seed into the state it finds.
semear_somando(seed, s) == IF seed # None THEN (seed + s) % RngMod ELSE s

\* semear without the seeding.
\* semear that seeds with 0 when seed is None.
semear_sempre(seed, s) ==
    np_random_seed(IF seed # None THEN seed ELSE 0)

semear_nunca(seed, s) == s

\* gerar_instancia, lines 559-560: the stream after "if seed is not None:
\* np.random.seed(seed)".
semear(seed, s) == IF seed # None THEN np_random_seed(seed) ELSE s

\* limitar_equipes that cuts to one team fewer than there are.
limitar_equipes_um_a_menos(n, disponiveis) ==
    IF disponiveis < n THEN disponiveis - 1 ELSE n

\* gerar_instancia, lines 574-576: the team count is cut to the teams there are.
limitar_equipes(n, disponiveis) == IF disponiveis < n THEN disponiveis ELSE n

\* proxima that stays on the same configuration.
proxima_repete(posicao) == posicao

\* gerar_conjunto_instancias, line 708: the for loop takes the next configuration.
proxima(posicao) == posicao + 1

\* Levantar caught by the loop, which runs the configuration again.
LevantarETentarDeNovo(excecao) ==
    /\ erro' = excecao
    /\ pc' = "inicio"

\* An exception leaves the function, the loop and the program.
Levantar(excecao) ==
    /\ erro' = excecao
    /\ pc' = "abortado"

\* gerar_instancia, lines 559-560: the stream is seeded unless seed is None.
Semear ==
    /\ pc = "inicio"
    /\ np_random' = semear(cfg.seed, np_random)
    /\ eventos' = eventos \o
          (IF cfg.seed # None THEN << Evento("seed", "np.random.seed", 0) >> ELSE << >>)
    /\ n_equipes' = cfg.n_equipes
    /\ pc' = "carregar"
    /\ UNCHANGED <<arquivos, relogio, fila, k, equipes_df, equipes, setores_df, pacientes,
                   matriz, instancia, disco, erro, historico>>

\* gerar_instancia, lines 570-578: load the teams, clamp the count, take the head.
CarregarEquipes ==
    /\ pc = "carregar"
    /\ LET r == carregar_equipes_emad(arquivos)
       IN  IF ~r.ok
           THEN /\ Levantar(r.erro)
                /\ UNCHANGED <<n_equipes, equipes_df, equipes>>
           ELSE /\ equipes_df' = r.df
                /\ n_equipes' = limitar_equipes(n_equipes, Len(r.df))
                /\ equipes' = head(r.df, n_equipes')
                /\ pc' = "demografia"
                /\ erro' = erro
    /\ eventos' = Append(eventos, Evento("etapa", "carregar", 0))
    /\ UNCHANGED <<arquivos, np_random, relogio, fila, k, setores_df, pacientes, matriz,
                   instancia, disco, historico>>

\* gerar_instancia, lines 580-586: the demographic table is loaded when its
\* file is there; FileNotFoundError is caught.
VerificarDemografia ==
    /\ pc = "demografia"
    /\ \E arquivo \in Demografias :
          LET r == carregar_setores_censitarios(arquivo)
          IN  setores_df' = IF r.ok THEN << r.df >> ELSE << >>
    /\ pc' = "pacientes"
    /\ eventos' = Append(eventos, Evento("etapa", "demografia", 0))
    /\ UNCHANGED <<arquivos, np_random, relogio, fila, k, n_equipes, equipes_df, equipes,
                   pacientes, matriz, instancia, disco, erro, historico>>

\* GerarPacientes that prints no percentage of an empty list.
GerarPacientesSemPercentagens ==
    /\ pc = "pacientes"
    /\ LET centro_lat == mean([i \in 1..Len(equipes) |-> equipes[i].lat])
           centro_lon == mean([i \in 1..Len(equipes) |-> equipes[i].lon])
           r == gerar_pacientes(cfg.n_pacientes, setores_df, centro_lat, centro_lon,
                                np_random)
       IN  /\ pacientes' = r.pacientes
           /\ np_random' = r.st
           /\ eventos' = Append(eventos, Evento("etapa", "pacientes", 0)) \o
                 [x \in 1..Len(r.sorteios) |->
                     Evento("draw", r.sorteios[x][2], r.sorteios[x][1])]
    /\ pc' = "matriz"
    /\ erro' = erro
    /\ UNCHANGED <<arquivos, relogio, fila, k, n_equipes, equipes_df, equipes, setores_df,
                   matriz, instancia, disco, historico>>

\* gerar_instancia, lines 588-597: the patients, then the modality percentages.
GerarPacientes ==
    /\ pc = "pacientes"
    /\ LET centro_lat == mean([i \in 1..Len(equipes) |-> equipes[i].lat])
           centro_lon == mean([i \in 1..Len(equipes) |-> equipes[i].lon])
           r == gerar_pacientes(cfg.n_pacientes, setores_df, centro_lat, centro_lon,
                                np_random)
       IN  /\ pacientes' = r.pacientes
           /\ np_random' = r.st
           /\ eventos' = Append(eventos, Evento("etapa", "pacientes", 0)) \o
                 [x \in 1..Len(r.sorteios) |->
                     Evento("draw", r.sorteios[x][2], r.sorteios[x][1])]
           /\ IF Len(r.pacientes) = 0
              THEN Levantar("ZeroDivisionError")
              ELSE pc' = "matriz" /\ erro' = erro
    /\ UNCHANGED <<arquivos, relogio, fila, k, n_equipes, equipes_df, equipes, setores_df,
                   matriz, instancia, disco, historico>>

\* CalcularMatriz that builds the matrix without a depot when there is no team.
CalcularMatrizSemDeposito ==
    /\ pc = "matriz"
    /\ matriz' = IF equipes = << >>
                 THEN [i \in 0..Len(pacientes) |-> [j \in 0..Len(pacientes) |-> 0]]
                 ELSE calcular_matriz_distancias(equipes, pacientes)
    /\ pc' = "montar"
    /\ erro' = erro
    /\ eventos' = Append(eventos, Evento("etapa", "matriz", 0))
    /\ UNCHANGED <<arquivos, np_random, relogio, fila, k, n_equipes, equipes_df, equipes,
                   setores_df, pacientes, instancia, disco, historico>>

\* gerar_instancia, lines 599-604: the matrix; equipes.iloc[0] of an empty
\* table raises.
CalcularMatriz ==
    /\ pc = "matriz"
    /\ IF equipes = << >>
       THEN /\ Levantar("IndexError")
            /\ matriz' = matriz
       ELSE /\ matriz' = calcular_matriz_distancias(equipes, pacientes)
            /\ pc' = "montar"
            /\ erro' = erro
    /\ eventos' = Append(eventos, Evento("etapa", "matriz", 0))
    /\ UNCHANGED <<arquivos, np_random, relogio, fila, k, n_equipes, equipes_df, equipes,
                   setores_df, pacientes, instancia, disco, historico>>

\* gerar_instancia, lines 606-646: the capacities, the instance, the return.
Montar ==
    /\ pc = "montar"
    /\ LET c == SortearCapacidades(Len(equipes), np_random)
       IN  /\ instancia' = MontarInstancia(cfg, n_equipes, equipes, pacientes, matriz,
                                           c.capacidades, relogio)
           /\ np_random' = c.st
           /\ eventos' = Append(eventos, Evento("etapa", "montar", 0)) \o
                 [x \in 1..Len(equipes) |-> Evento("draw", "capacidade", x)]
    /\ relogio' = relogio + 1
    /\ historico' = Append(historico,
          [k |-> k, cfg |-> cfg, disponiveis |-> Len(equipes_df),
           setores_df |-> setores_df, instancia |-> instancia'])
    /\ pc' = "salvar_json"
    /\ UNCHANGED <<arquivos, fila, k, locais, disco, erro>>

\* salvar_instancia(instancia, formato='json')
SalvarJson ==
    /\ pc = "salvar_json"
    /\ disco' = [disco EXCEPT !.json =
                    Escrever(@, instancia.metadata.nome, Completo(json_dump(instancia)))]
    /\ pc' = "salvar_equipes"
    /\ eventos' = Append(eventos, Evento("etapa", "salvar_json", 0))
    /\ UNCHANGED <<arquivos, np_random, relogio, fila, k, locais, instancia, erro,
                   historico>>

\* salvar_instancia(instancia, formato='csv'): the team table
SalvarEquipes ==
    /\ pc = "salvar_equipes"
    /\ disco' = [disco EXCEPT !.equipes =
                    Escrever(@, instancia.metadata.nome,
                             Completo(to_csv(ColunasEquipes, instancia.equipes)))]
    /\ pc' = "salvar_pacientes"
    /\ eventos' = Append(eventos, Evento("etapa", "salvar_csv_equipes", 0))
    /\ UNCHANGED <<arquivos, np_random, relogio, fila, k, locais, instancia, erro,
                   historico>>

\* salvar_instancia(instancia, formato='csv'): the patient table
SalvarPacientes ==
    /\ pc = "salvar_pacientes"
    /\ disco' = [disco EXCEPT !.pacientes =
                    Escrever(@, instancia.metadata.nome,
                             Completo(to_csv(ColunasPacientes, instancia.pacientes)))]
    /\ pc' = "salvar_matriz"
    /\ eventos' = Append(eventos, Evento("etapa", "salvar_csv_pacientes", 0))
    /\ UNCHANGED <<arquivos, np_random, relogio, fila, k, locais, instancia, erro,
                   historico>>

\* salvar_instancia(instancia, formato='csv'): the matrix table, and back to
\* the loop of gerar_conjunto_instancias
SalvarMatriz ==
    /\ pc = "salvar_matriz"
    /\ disco' = [disco EXCEPT !.matriz =
                    Escrever(@, instancia.metadata.nome,
                             Completo(to_csv_matriz(instancia.matriz_tempos)))]
    /\ IF k < Len(fila)
       THEN k' = proxima(k) /\ pc' = "inicio"
       ELSE k' = k /\ pc' = "fim"
    /\ n_equipes' = 0
    /\ equipes_df' = << >>
    /\ equipes' = << >>
    /\ setores_df' = << >>
    /\ pacientes' = << >>
    /\ matriz' = SemMatriz
    /\ instancia' = SemInstancia
    /\ eventos' = Append(eventos, Evento("etapa", "salvar_csv_matriz", 0))
    /\ UNCHANGED <<arquivos, np_random, relogio, fila, erro, historico>>

\* A write of salvar_instancia fails (OSError): the file being written is not
\* created, or is left cut short.
FalharEscrita ==
    /\ pc \in {"salvar_json", "salvar_equipes", "salvar_pacientes", "salvar_matriz"}
    /\ \E cortado \in BOOLEAN :
          disco' = IF ~cortado THEN disco
                   ELSE CASE pc = "salvar_json" ->
                               [disco EXCEPT !.json = Escrever(@, instancia.metadata.nome, Parcial)]
                          [] pc = "salvar_equipes" ->
                               [disco EXCEPT !.equipes = Escrever(@, instancia.metadata.nome, Parcial)]
                          [] pc = "salvar_pacientes" ->
                               [disco EXCEPT !.pacientes = Escrever(@, instancia.metadata.nome, Parcial)]
                          [] pc = "salvar_matriz" ->
                               [disco EXCEPT !.matriz = Escrever(@, instancia.metadata.nome, Parcial)]
    /\ Levantar("OSError")
    /\ UNCHANGED <<arquivos, np_random, relogio, fila, k, locais, instancia, historico,
                   eventos>>

Next ==
    \/ Semear
    \/ CarregarEquipes
    \/ VerificarDemografia
    \/ GerarPacientes
    \/ CalcularMatriz
    \/ Montar
    \/ SalvarJson
    \/ SalvarEquipes
    \/ SalvarPacientes
    \/ SalvarMatriz
    \/ FalharEscrita

Spec == Init /\ [][Next]_vars

\* ------------------------------------------------------------------ claims
\* Where the run is once the matrix of the current call is built.
AposMatriz == {"montar", "salvar_json", "salvar_equipes", "salvar_pacientes", "salvar_matriz"}

\* Where the run is once gerar_instancia has returned.
AposRetorno == {"salvar_json", "salvar_equipes", "salvar_pacientes", "salvar_matriz"}

\* The errors gerar_instancia raises (a failed write is salvar_instancia's).
ErrosDeGeracao == {"FileNotFoundError", "KeyError", "ZeroDivisionError", "IndexError"}

\* An instance with its generation timestamp blanked.
SemData(inst) == [inst EXCEPT !.metadata.data_geracao = 0]

MesmaChamada(a, b) ==
    /\ a.cfg.seed = b.cfg.seed
    /\ a.cfg.n_pacientes = b.cfg.n_pacientes
    /\ a.cfg.n_equipes = b.cfg.n_equipes

\* C1: two calls of gerar_instancia with the same seed (not None), the same
\* n_pacientes and n_equipes and the same inputs return instances equal in
\* every field but metadata.data_geracao.
C1_Reprodutivel ==
    \A a, b \in 1..Len(historico) :
        (/\ historico[a].cfg.seed # None
         /\ MesmaChamada(historico[a], historico[b])
         /\ historico[a].setores_df = historico[b].setores_df)
        => SemData(historico[a].instancia) = SemData(historico[b].instancia)

\* Two calls with the same seeded configuration have returned, the second
\* from another state of the stream and at another time.
C1_Witness ==
    /\ Len(historico) = 2
    /\ historico[1].cfg.seed # None
    /\ historico[1].cfg.n_pacientes = MaxPacientes
    /\ historico[1].cfg.n_equipes = 2
    /\ MesmaChamada(historico[1], historico[2])
    /\ historico[1].setores_df = historico[2].setores_df
    /\ Len(historico[1].instancia.equipes) = 2
    /\ historico[1].instancia.metadata.data_geracao
           # historico[2].instancia.metadata.data_geracao

MatrizSimetrica(m, n) ==
    \A i, j \in 0..n : m[i][j] = m[j][i] /\ m[i][i] = 0

\* C2: the matrix calcular_matriz_distancias returns is exactly symmetric and
\* its diagonal is zero.
C2_Simetrica ==
    pc \in AposMatriz => MatrizSimetrica(matriz, Len(pacientes))

\* A matrix of two patients at different travel times from the depot and
\* from each other.
C2_Witness ==
    /\ pc = "montar"
    /\ Len(pacientes) = 2
    /\ matriz[1][2] > 0
    /\ matriz[0][1] > 0
    /\ matriz[0][1] # matriz[0][2]

TempoEntre(a, b) == distancia_para_tempo(haversine(a.lon, a.lat, b.lon, b.lat))

\* The matrix mt (a list of rows) has a row and a column for the depot and
\* for each patient of ps, in the order of ps, with the first team of es as
\* the depot and patient i the one with id i.
IndicesCertos(es, ps, mt) ==
    LET n == Len(ps)
    IN  /\ Len(mt) = n + 1
        /\ \A i \in 1..(n + 1) : Len(mt[i]) = n + 1
        /\ es[1].id = 1
        /\ \A i \in 1..n :
              /\ ps[i].id = i
              /\ mt[1][i + 1] = TempoEntre(es[1], ps[i])
              /\ mt[i + 1][1] = TempoEntre(es[1], ps[i])
              /\ \A j \in 1..n : i # j => mt[i + 1][j + 1] = TempoEntre(ps[i], ps[j])

\* C3: the matrix has (n+1) x (n+1) cells, index 0 is the first team (id 1),
\* index i the patient with id i at position i of the list, and the list is
\* the same, in the same order, when the instance is assembled and written.
C3_IndicesEstaveis ==
    /\ pc \in AposMatriz =>
          /\ DOMAIN matriz = 0..Len(pacientes)
          /\ \A i \in DOMAIN matriz : DOMAIN matriz[i] = 0..Len(pacientes)
          /\ IndicesCertos([i \in 1..Len(equipes) |->
                               [id |-> i, lat |-> equipes[i].lat, lon |-> equipes[i].lon]],
                           pacientes, tolist(matriz))
    /\ pc \in AposRetorno =>
          /\ instancia.pacientes = pacientes
          /\ instancia.metadata.n_pacientes = Len(pacientes)
          /\ instancia.matriz_tempos = tolist(matriz)
          /\ instancia.equipes[1].id = 1
          /\ instancia.equipes[1].lat = equipes[1].lat
          /\ instancia.equipes[1].lon = equipes[1].lon
          /\ historico[Len(historico)].instancia = instancia
    /\ pc \in {"salvar_equipes", "salvar_pacientes", "salvar_matriz"} =>
          LET lido == json_load(disco.json[cfg.nome].dados)
          IN  /\ lido.pacientes = pacientes
              /\ lido.equipes = instancia.equipes
              /\ lido.matriz_tempos = instancia.matriz_tempos
    /\ pc = "salvar_matriz" =>
          read_csv(disco.pacientes[cfg.nome].dados).linhas = pacientes

\* The instance of two teams at different places and two patients at
\* different places has been written as JSON.
C3_Witness ==
    /\ pc = "salvar_equipes"
    /\ Len(equipes) = 2
    /\ Len(pacientes) = 2
    /\ pacientes[1].lat # pacientes[2].lat
    /\ TempoEntre(equipes[1], pacientes[1]) # TempoEntre(equipes[2], pacientes[1])
    /\ json_load(disco.json[cfg.nome].dados).matriz_tempos[1][2] =
          TempoEntre(equipes[1], pacientes[1])
    /\ IndicesCertos(instancia.equipes, instancia.pacientes, instancia.matriz_tempos)

\* Every patient generated so far: of the current call and of the instances
\* returned.
TodosPacientes ==
    {pacientes[i] : i \in 1..Len(pacientes)}
    \cup UNION { {historico[h].instancia.pacientes[i] :
                    i \in 1..Len(historico[h].instancia.pacientes)} :
                 h \in 1..Len(historico) }

\* C4: the frequency of every Standard (AD2) patient is an integer of 1..3
\* and that of every Intensive (AD3) patient an integer of 5..7.
C4_Frequencia ==
    \A p \in TodosPacientes :
        /\ p.modalidade = "AD2" => p.frequencia \in 1..3
        /\ p.modalidade = "AD3" => p.frequencia \in 5..7

\* An instance with a Standard and an Intensive patient.
C4_Witness ==
    \E h \in 1..Len(historico) :
        \E p, q \in {historico[h].instancia.pacientes[i] :
                        i \in 1..Len(historico[h].instancia.pacientes)} :
            /\ p.modalidade = "AD2" /\ p.frequencia = 3
            /\ q.modalidade = "AD3" /\ q.frequencia \in 5..7

\* The calls that asked for more teams than the registry yields after the
\* filters (and for a patient at least).
PediuDemais(c, disponiveis) == c.n_equipes > disponiveis /\ c.n_pacientes >= 1

\* Where the run is in gerar_instancia once the teams are loaded.
AposCarga == {"demografia", "pacientes", "matriz", "montar"}

\* C5 as claimed: whatever the number of teams available, a call (of one
\* patient or more) that asks for more teams than there are does not fail and
\* returns an instance with the teams there are.
C5_Original ==
    (/\ pc = "abortado"
     /\ eventos[Len(eventos)].oque \in {"pacientes", "matriz"}
     /\ PediuDemais(cfg, Len(equipes_df)))
    => erro \notin ErrosDeGeracao

\* C5 amended: with one team or more available, a call (of one patient or
\* more) that asks for more teams than there are does not fail: it goes
\* through every stage and returns an instance whose team list is exactly the
\* teams there are, and whose metadata says so.
C5_Limite ==
    /\ (pc \in AposCarga \cup AposRetorno \cup {"abortado"}
         /\ Len(equipes_df) >= 1 /\ PediuDemais(cfg, Len(equipes_df))) =>
          /\ pc = "abortado" => erro \notin ErrosDeGeracao
          /\ pc \in AposCarga =>
                Len(equipes) = Len(equipes_df) /\ n_equipes = Len(equipes_df)
          /\ pc \in AposRetorno =>
                /\ Len(instancia.equipes) = Len(equipes_df)
                /\ instancia.metadata.n_equipes = Len(equipes_df)
    /\ \A h \in 1..Len(historico) :
          (historico[h].disponiveis >= 1
           /\ PediuDemais(historico[h].cfg, historico[h].disponiveis)) =>
             /\ Len(historico[h].instancia.equipes) = historico[h].disponiveis
             /\ historico[h].instancia.metadata.n_equipes = historico[h].disponiveis

\* The batch asked for 15 teams of a registry of three and got its instance
\* of three teams.
C5_Witness ==
    /\ pc = "salvar_json"
    /\ cfg.n_equipes = 15
    /\ Len(equipes_df) = 3
    /\ Len(instancia.equipes) = 3
    /\ instancia.metadata.n_equipes = 3

Tipos == {"json", "equipes", "pacientes", "matriz"}

\* The files of the output directory under a name.
NenhumaSaida(nome) == \A t \in Tipos : nome \notin DOMAIN disco[t]
SaidaCompleta(nome) ==
    \A t \in Tipos : nome \in DOMAIN disco[t] /\ disco[t][nome].completo

\* C6 as claimed: at every point of a run each configuration has none of its
\* output on storage or all of it.
C6_Original ==
    \A i \in 1..Len(fila) : NenhumaSaida(fila[i].nome) \/ SaidaCompleta(fila[i].nome)

\* What a file of kind t reads back as.
Ler(t, dados) ==
    CASE t = "json" -> json_load(dados)
      [] t = "matriz" -> read_csv_matriz(dados)
      [] OTHER -> read_csv(dados)

\* What was read from a file of kind t is what instance inst has of that
\* kind, whole.
Guarda(t, lido, inst) ==
    CASE t = "json" ->
            /\ lido.equipes = inst.equipes
            /\ lido.pacientes = inst.pacientes
            /\ lido.matriz_tempos = inst.matriz_tempos
            /\ lido.metadata.n_pacientes = Len(inst.pacientes)
            /\ lido.metadata.n_equipes = Len(inst.equipes)
      [] t = "equipes" -> lido.linhas = inst.equipes
      [] t = "pacientes" -> lido.linhas = inst.pacientes
      [] t = "matriz" -> lido.linhas = inst.matriz_tempos

C6_Estado ==
    /\ \A t \in Tipos : \A nome \in DOMAIN disco[t] :
          \E h \in 1..Len(historico) : historico[h].cfg.nome = nome
    /\ \A t \in Tipos :
          (cfg.nome \in DOMAIN disco[t] /\ disco[t][cfg.nome].completo) =>
             LET lido == Ler(t, disco[t][cfg.nome].dados)
             IN  \E h \in 1..Len(historico) :
                    /\ historico[h].cfg.nome = cfg.nome
                    /\ Guarda(t, lido, historico[h].instancia)
    /\ erro \in ErrosDeGeracao =>
          /\ \A h \in 1..Len(historico) : historico[h].k < k
          /\ \A t \in Tipos : cfg.nome \in DOMAIN disco[t] =>
                \E j \in 1..(k - 1) : fila[j].nome = cfg.nome
    /\ erro = "" =>
          \A i \in 1..Len(fila) : (i < k \/ pc = "fim") => SaidaCompleta(fila[i].nome)

\* A step leaves the files under the names of other configurations alone.
C6_Passo ==
    \A t \in Tipos : \A nome \in DOMAIN disco[t] :
        nome # cfg.nome =>
           nome \in DOMAIN disco'[t] /\ disco'[t][nome] = disco[t][nome]

\* C6 amended: only fully assembled instances are persisted.  A file is on
\* storage only under the name of an instance gerar_instancia returned, and a
\* file written whole holds all the teams, patients or matrix of such an
\* instance, from the moment it is written (the files of the configuration
\* at hand) and for as long as it is there (no step touches the files of
\* another name); a configuration whose generation raises writes nothing.
\* The four files of a configuration are written one after the other, so
\* part of them can be there while they are written or after a write fails;
\* as long as no write has failed, every configuration the run has left has
\* all four, whole.
C6_SoInstanciasMontadas == []C6_Estado /\ [][C6_Passo]_vars

\* A write of the patient table failed and left it cut short, the JSON
\* document and the team table of the configuration being there whole and
\* the matrix table not at all.
C6_Witness ==
    /\ pc = "abortado"
    /\ erro = "OSError"
    /\ Len(instancia.equipes) = 2
    /\ cfg.nome \in DOMAIN disco.json
    /\ disco.json[cfg.nome].completo
    /\ cfg.nome \in DOMAIN disco.equipes
    /\ cfg.nome \in DOMAIN disco.pacientes
    /\ ~disco.pacientes[cfg.nome].completo
    /\ cfg.nome \notin DOMAIN disco.matriz

\* The names of the configurations of the run differ (as in the batch).
NomesDistintos == \A i, j \in 1..Len(fila) : fila[i].nome = fila[j].nome => i = j

C7_Estado ==
    pc = "abortado" =>
       /\ erro # ""
       /\ \A h \in 1..Len(historico) : historico[h].k <= k
       /\ \A x \in 1..Len(eventos) : eventos[x].k <= k
       /\ NomesDistintos =>
             \A j \in (k + 1)..Len(fila) : NenhumaSaida(fila[j].nome)

C7_Passo ==
    /\ erro # "" => UNCHANGED vars
    /\ (erro = "" /\ erro' # "") =>
          /\ pc' = "abortado"
          /\ k' = k
          /\ historico' = historico
          /\ \A t \in Tipos : \A nome \in DOMAIN disco[t] :
                nome # cfg.nome =>
                   nome \in DOMAIN disco'[t] /\ disco'[t][nome] = disco[t][nome]

\* C7: when the generation or the persistence of configuration k raises, the
\* run is over: nothing of a later configuration is generated or written,
\* no step is taken again, and the step that raises leaves the files of the
\* other configurations as they were.
C7_ErroPropaga == []C7_Estado /\ [][C7_Passo]_vars

\* The second configuration of the batch failed in a write, the first one
\* being persisted whole.
C7_Witness ==
    /\ pc = "abortado"
    /\ erro = "OSError"
    /\ fila = instancias_config
    /\ k = 2
    /\ SaidaCompleta(fila[1].nome)
    /\ fila[2].nome \in DOMAIN disco.json

\* The successful writes so far, in order.
Escritas ==
    SelectSeq(eventos, LAMBDA e : e.oque \in {"salvar_json", "salvar_csv_equipes",
                                              "salvar_csv_pacientes", "salvar_csv_matriz"})

OrdemDeEscrita ==
    <<"salvar_json", "salvar_csv_equipes", "salvar_csv_pacientes", "salvar_csv_matriz">>

EscritasNaEtapa ==
    CASE pc = "salvar_equipes" -> 1
      [] pc = "salvar_pacientes" -> 2
      [] pc = "salvar_matriz" -> 3
      [] pc = "fim" -> 4
      [] OTHER -> 0

\* What is left to do: the configurations after the current one, and the
\* stages of the current one.
EtapasRestantes ==
    CASE pc = "inicio" -> 10
      [] pc = "carregar" -> 9
      [] pc = "demografia" -> 8
      [] pc = "pacientes" -> 7
      [] pc = "matriz" -> 6
      [] pc = "montar" -> 5
      [] pc = "salvar_json" -> 4
      [] pc = "salvar_equipes" -> 3
      [] pc = "salvar_pacientes" -> 2
      [] pc = "salvar_matriz" -> 1
      [] OTHER -> 0

Medida ==
    IF pc \in {"fim", "abortado"} THEN 0
    ELSE 11 * (Len(fila) - k) + EtapasRestantes + 1

C8_Estado ==
    /\ k \in 1..Len(fila)
    /\ erro = "" =>
          /\ Len(historico) = IF pc \in AposRetorno \cup {"fim"} THEN k ELSE k - 1
          /\ \A h \in 1..Len(historico) :
                historico[h].k = h /\ historico[h].cfg = fila[h]
          /\ Len(Escritas) = 4 * (k - 1) + EscritasNaEtapa
          /\ \A x \in 1..Len(Escritas) :
                /\ Escritas[x].k = ((x - 1) \div 4) + 1
                /\ Escritas[x].oque = OrdemDeEscrita[((x - 1) % 4) + 1]
          /\ \A x \in 1..(Len(eventos) - 1) : eventos[x].k <= eventos[x + 1].k
          /\ \A i \in 1..(k - 1) : SaidaCompleta(fila[i].nome)
          /\ pc = "fim" => k = Len(fila) /\ SaidaCompleta(fila[k].nome)

\* C8: in a run in which no step fails every configuration of the list is
\* generated once, in list order, and written as JSON and then as the three
\* tables before the next one starts; the run is over only after the last
\* configuration is written, and every step brings that end nearer, so that
\* no run goes on for ever.
C8_LoteCompleto == []C8_Estado /\ [][Medida' < Medida /\ Medida' >= 0]_vars

\* The batch ran its six configurations to the end.
C8_Witness ==
    /\ pc = "fim"
    /\ erro = ""
    /\ fila = instancias_config
    /\ Len(historico) = 6
    /\ \A i \in 1..6 : SaidaCompleta(fila[i].nome)

RegistroFaltando == ~arquivos.tbEquipe.existe \/ ~arquivos.tbEstabelecimento.existe

\* C9: when the team table or the facility table is missing, the first call
\* of gerar_instancia raises FileNotFoundError while loading, before any draw
\* for a patient, and the run ends there: no instance is returned and nothing
\* is written for that configuration or a later one.
C9_RegistroAusente ==
    RegistroFaltando =>
       /\ pc \in {"inicio", "carregar", "abortado"}
       /\ pc = "abortado" => erro = "FileNotFoundError" /\ k = 1
       /\ pacientes = << >>
       /\ \A x \in 1..Len(eventos) : eventos[x].tipo # "draw"
       /\ historico = << >>
       /\ disco = PastaVazia

\* The batch stopped at its first configuration, the facility table missing.
C9_Witness ==
    /\ pc = "abortado"
    /\ arquivos.tbEquipe.existe
    /\ ~arquivos.tbEstabelecimento.existe
    /\ fila = instancias_config
    /\ erro = "FileNotFoundError"

EquipesEmMaos ==
    {[CO_UNIDADE |-> equipes_df[i].CO_UNIDADE, lat |-> equipes_df[i].lat,
      lon |-> equipes_df[i].lon] : i \in 1..Len(equipes_df)}
    \cup {[CO_UNIDADE |-> equipes[i].CO_UNIDADE, lat |-> equipes[i].lat,
           lon |-> equipes[i].lon] : i \in 1..Len(equipes)}
    \cup UNION {{[CO_UNIDADE |-> historico[h].instancia.equipes[i].codigo_unidade,
                  lat |-> historico[h].instancia.equipes[i].lat,
                  lon |-> historico[h].instancia.equipes[i].lon] :
                   i \in 1..Len(historico[h].instancia.equipes)} :
                h \in 1..Len(historico)}

\* The text is that of a number other than zero, and v is that number.
NumeroNaoZero(txt, v) == txt.tipo = "numero" /\ txt.v = v /\ v # 0

\* C11: every team that reaches the generator (loaded, selected for an
\* instance, depot of a matrix, returned) has a latitude and a longitude that
\* parsed as numbers and are not zero, those of a facility row of its unit;
\* rows whose latitude or longitude is missing, unparseable or zero are gone.
C11_CoordenadasValidas ==
    /\ \A e \in EquipesEmMaos :
          /\ e.lat # NaN /\ e.lon # NaN
          /\ e.lat # 0 /\ e.lon # 0
          /\ \E r \in {arquivos.tbEstabelecimento.linhas[i] :
                         i \in 1..Len(arquivos.tbEstabelecimento.linhas)} :
                /\ r.CO_UNIDADE = e.CO_UNIDADE
                /\ NumeroNaoZero(r.NU_LATITUDE, e.lat)
                /\ NumeroNaoZero(r.NU_LONGITUDE, e.lon)
    /\ pc \in AposMatriz => equipes # << >>

\* The registry with a zero latitude (u3), and an instance returned from it
\* with the three teams left.
C11_Witness ==
    /\ pc = "salvar_json"
    /\ arquivos.tbEquipe.linhas = EquipesTres
    /\ Len(equipes_df) = 3
    /\ Len(instancia.equipes) = 3
    /\ \A i \in 1..3 : equipes_df[i].CO_UNIDADE # "u3"

Uniforme == 0..99

\* How many of the hundred values of the uniform draw give each window.
ParteDaJanela ==
    [j \in DOMAIN DIST_JANELA |-> Cardinality({r \in Uniforme : escolher_janela(r) = j})]

\* C13: the window of every patient is Morning (420, 720), Afternoon
\* (780, 1080) or FullDay (420, 1080); the draw made in any state of the
\* stream gives Morning for r < 0.40, Afternoon for 0.40 <= r < 0.75 and
\* FullDay otherwise, that is 40, 35 and 25 of a hundred.
C13_Janelas ==
    /\ \A p \in TodosPacientes :
          <<p.janela_inicio, p.janela_fim>> \in {<<420, 720>>, <<780, 1080>>, <<420, 1080>>}
    /\ LET r == np_random_random(np_random).val
           j == sortear_janela_tempo(np_random).val
           h == JANELAS_HORARIO[j]
       IN  /\ r < 40 => j = "manha" /\ h = <<420, 720>>
           /\ (40 <= r /\ r < 75) => j = "tarde" /\ h = <<780, 1080>>
           /\ r >= 75 => j = "integral" /\ h = <<420, 1080>>
    /\ ParteDaJanela.manha = 40
    /\ ParteDaJanela.tarde = 35
    /\ ParteDaJanela.integral = 25

\* An instance with an Afternoon patient and a FullDay patient, and the
\* stream in a state whose next draw falls in the Afternoon share.
C13_Witness ==
    /\ np_random_random(np_random).val \in 40..74
    /\ \E h \in 1..Len(historico) :
          \E p, q \in {historico[h].instancia.pacientes[i] :
                          i \in 1..Len(historico[h].instancia.pacientes)} :
              /\ p.janela_inicio = 780 /\ p.janela_fim = 1080
              /\ q.janela_inicio = 420 /\ q.janela_fim = 1080

ParteDaModalidade ==
    [m \in DOMAIN DIST_MODALIDADE |->
        Cardinality({r \in Uniforme : escolher_modalidade(r) = m})]

\* C14: the modality of every patient is AD2 or AD3; the draw made in any
\* state of the stream gives AD2 exactly for r < 0.70 and AD3 otherwise,
\* that is 70 and 30 of a hundred.
C14_Modalidade ==
    /\ \A p \in TodosPacientes : p.modalidade \in {"AD2", "AD3"}
    /\ LET r == np_random_random(np_random).val
       IN  sortear_modalidade(np_random).val = "AD2" <=> r < 70
    /\ ParteDaModalidade.AD2 = 70
    /\ ParteDaModalidade.AD3 = 30

\* An instance with a patient of each modality, and the stream in a state
\* whose next draw is between 0.30 and 0.70.
C14_Witness ==
    /\ np_random_random(np_random).val \in 30..69
    /\ \E h \in 1..Len(historico) :
          \E p, q \in {historico[h].instancia.pacientes[i] :
                          i \in 1..Len(historico[h].instancia.pacientes)} :
              p.modalidade = "AD2" /\ q.modalidade = "AD3"

RECURSIVE AvancarN(_, _)
\* The stream n draws after state s.
AvancarN(s, n) == IF n = 0 THEN s ELSE AvancarN(Avancar(s), n - 1)

\* The teams of the instances returned and of the JSON documents written.
EquipesDeInstancias ==
    UNION {{historico[h].instancia.equipes[i] :
              i \in 1..Len(historico[h].instancia.equipes)} : h \in 1..Len(historico)}
    \cup UNION {{json_load(disco.json[nome].dados).equipes[i] :
                   i \in 1..Len(disco.json[nome].dados.equipes)} :
                 nome \in {x \in DOMAIN disco.json : disco.json[x].completo}}

C15_Estado ==
    \A e \in EquipesDeInstancias :
        e.capacidade_diaria \in CAPACIDADE_EQUIPE_MIN..CAPACIDADE_EQUIPE_MAX

C15_Passo ==
    /\ pc = "montar" =>
          /\ Len(instancia'.equipes) = Len(equipes)
          /\ \A i \in 1..Len(equipes) :
                instancia'.equipes[i].capacidade_diaria =
                   np_random_randint(360, 481, AvancarN(np_random, i - 1)).val
          /\ np_random' = AvancarN(np_random, Len(equipes))
    /\ pc \in AposRetorno =>
          /\ np_random' = np_random
          /\ instancia' # instancia => pc = "salvar_matriz" /\ instancia' = SemInstancia

\* C15: every team of every assembled instance has one capacity, an integer
\* of 360..480: the value of the draw made for it when the instance is
\* assembled, one draw per team in team order, and no draw is made for it
\* afterwards.
C15_Capacidade == []C15_Estado /\ [][C15_Passo]_vars

\* An instance of three teams with three different capacities.
C15_Witness ==
    /\ pc = "salvar_json"
    /\ Len(instancia.equipes) = 3
    /\ Cardinality({instancia.equipes[i].capacidade_diaria : i \in 1..3}) = 3

\* C16: the priority of every patient is 3 when its modality is AD3 and 2
\* when it is AD2, and no patient has another priority.
C16_Prioridade ==
    \A p \in TodosPacientes :
        /\ p.prioridade = (IF p.modalidade = "AD3" THEN 3 ELSE 2)
        /\ p.prioridade \in {2, 3}
        /\ \A q \in TodosPacientes : p.modalidade = q.modalidade => p.prioridade = q.prioridade

\* An instance with a patient of priority 2 and one of priority 3.
C16_Witness ==
    \E h \in 1..Len(historico) :
        \E p, q \in {historico[h].instancia.pacientes[i] :
                        i \in 1..Len(historico[h].instancia.pacientes)} :
            /\ p.modalidade = "AD2" /\ p.prioridade = 2
            /\ q.modalidade = "AD3" /\ q.prioridade = 3

\* Teams, patients and matrix are those of instance inst.
MesmoConteudo(es, ps, mt, inst) ==
    /\ es = inst.equipes
    /\ ps = inst.pacientes
    /\ mt = inst.matriz_tempos
    /\ \A i \in 1..Len(es) :
          round6(es[i].lat) = round6(inst.equipes[i].lat)
          /\ round6(es[i].lon) = round6(inst.equipes[i].lon)
    /\ \A i \in 1..Len(ps) :
          ps[i].lat = round6(inst.pacientes[i].lat) /\ ps[i].lon = round6(inst.pacientes[i].lon)

SorteiosDeAtributos == {"modalidade", "janela", "frequencia", "tempo_servico"}
SorteiosDeCoordenadas == {"lat", "lon"}

\* The stage an event belongs to, with the sampling of attributes and the
\* placing of coordinates as two stages in that order.
EtapaAlegada(e) ==
    CASE e.tipo = "seed" -> 0
      [] e.oque \in {"carregar", "demografia"} -> 1
      [] e.oque \in SorteiosDeAtributos \cup {"pacientes"} -> 2
      [] e.oque \in SorteiosDeCoordenadas -> 3
      [] e.oque = "matriz" -> 4
      [] e.oque \in {"montar", "capacidade"} -> 5
      [] OTHER -> 6

\* C18 as claimed: the events of a configuration go through Load registry,
\* Sample attributes, Place coordinates, Build matrix, Assemble, Persist, no
\* event of a stage coming after one of a later stage.
C18_Original ==
    \A x \in 1..(Len(eventos) - 1) :
        eventos[x].k = eventos[x + 1].k =>
           EtapaAlegada(eventos[x]) <= EtapaAlegada(eventos[x + 1])

\* The stage an event belongs to, patients being generated in one stage.
EtapaDe(e) ==
    CASE e.tipo = "seed" -> 0
      [] e.oque = "carregar" -> 1
      [] e.oque = "demografia" -> 2
      [] e.oque \in SorteiosDeAtributos \cup SorteiosDeCoordenadas \cup {"pacientes"} -> 3
      [] e.oque = "matriz" -> 4
      [] e.oque \in {"montar", "capacidade"} -> 5
      [] e.oque = "salvar_json" -> 6
      [] e.oque = "salvar_csv_equipes" -> 7
      [] e.oque = "salvar_csv_pacientes" -> 8
      [] e.oque = "salvar_csv_matriz" -> 9

OrdemDosSorteios == <<"lat", "lon", "modalidade", "janela", "frequencia", "tempo_servico">>

\* The stage entries and the patient draws of configuration j, in order.
EntradasDe(j) == SelectSeq(eventos, LAMBDA e : e.k = j /\ e.tipo = "etapa")
SorteiosDePacientesDe(j) ==
    SelectSeq(eventos, LAMBDA e : e.k = j /\ e.tipo = "draw" /\ e.oque # "capacidade")

\* The stage that follows a stage.
Seguinte(etapa) ==
    CASE etapa = "inicio" -> {"carregar"}
      [] etapa = "carregar" -> {"demografia"}
      [] etapa = "demografia" -> {"pacientes"}
      [] etapa = "pacientes" -> {"matriz"}
      [] etapa = "matriz" -> {"montar"}
      [] etapa = "montar" -> {"salvar_json"}
      [] etapa = "salvar_json" -> {"salvar_equipes"}
      [] etapa = "salvar_equipes" -> {"salvar_pacientes"}
      [] etapa = "salvar_pacientes" -> {"salvar_matriz"}
      [] etapa = "salvar_matriz" -> {"inicio", "fim"}
      [] OTHER -> {}

C18_Estado ==
    /\ \A x \in 1..(Len(eventos) - 1) :
          \/ eventos[x].k < eventos[x + 1].k
          \/ /\ eventos[x].k = eventos[x + 1].k
             /\ EtapaDe(eventos[x]) <= EtapaDe(eventos[x + 1])
    /\ \A j \in 1..k :
          LET entradas == EntradasDe(j)
              sorteios == SorteiosDePacientesDe(j)
          IN  /\ \A x \in 1..(Len(entradas) - 1) :
                    EtapaDe(entradas[x]) < EtapaDe(entradas[x + 1])
              /\ \A x \in 1..Len(sorteios) :
                    /\ sorteios[x].i = ((x - 1) \div 6) + 1
                    /\ sorteios[x].oque = OrdemDosSorteios[((x - 1) % 6) + 1]
              /\ Len(sorteios) \in {0, 6 * fila[j].n_pacientes}

C18_Passo ==
    \/ pc' = pc
    \/ pc' \in Seguinte(pc)
    \/ pc' = "abortado"

\* C18 amended: for every configuration the stages are entered once each in
\* the order load registry, check demographics, generate patients, build
\* matrix, assemble, persist (JSON, teams, patients, matrix), each after the
\* one before it, with no branch and no retry; in the stage that generates
\* the patients each patient in turn has its coordinates placed and then its
\* attributes sampled.
C18_Etapas == []C18_Estado /\ [][C18_Passo]_vars

\* An instance of two patients assembled: the coordinates of the second were
\* placed after the attributes of the first were sampled.
C18_Witness ==
    /\ pc = "salvar_json"
    /\ Len(pacientes) = 2
    /\ \E x \in 1..(Len(eventos) - 1) :
          /\ eventos[x].oque = "tempo_servico" /\ eventos[x].i = 1
          /\ eventos[x + 1].oque = "lat" /\ eventos[x + 1].i = 2

SementesDe(j) == SelectSeq(eventos, LAMBDA e : e.k = j /\ e.tipo = "seed")
EventosDe(j) == SelectSeq(eventos, LAMBDA e : e.k = j)

\* C19 as claimed: every generation that has come to a draw has seeded the
\* stream exactly once, before that draw.
C19_Original ==
    \A j \in 1..k :
        LET evs == EventosDe(j)
        IN  (\E x \in 1..Len(evs) : evs[x].tipo = "draw") =>
               /\ Len(SementesDe(j)) = 1
               /\ evs[1].tipo = "seed"

C19_Estado ==
    /\ \A j \in 1..k :
          LET evs == EventosDe(j)
              sems == SementesDe(j)
          IN  /\ fila[j].seed = None => Len(sems) = 0
              /\ (fila[j].seed # None /\ evs # << >>) =>
                    Len(sems) = 1 /\ evs[1].tipo = "seed"
    /\ \A x \in 1..(Len(eventos) - 1) : eventos[x].k <= eventos[x + 1].k

C19_Passo ==
    /\ pc = "inicio" =>
          np_random' = IF cfg.seed # None THEN np_random_seed(cfg.seed) ELSE np_random
    /\ (pc = "pacientes" /\ cfg.seed # None) =>
          np_random' = AvancarN(np_random_seed(cfg.seed), 6 * cfg.n_pacientes)
    /\ pc = "pacientes" => np_random' = AvancarN(np_random, 6 * cfg.n_pacientes)
    /\ pc = "montar" => np_random' = AvancarN(np_random, Len(equipes))
    /\ pc \notin {"inicio", "pacientes", "montar"} => np_random' = np_random

\* C19 amended: a generation whose seed is not None seeds the stream exactly
\* once, before anything else and so before its first draw; a generation
\* whose seed is None does not seed it and draws on from the state it finds.
\* No sub-component seeds the stream: generating the patients and drawing
\* the capacities only advance it, one step per draw, and nothing else
\* touches it.  In a batch all the events of configuration k, draws
\* included, come before those of configuration k+1.
C19_SementeUmaVez == []C19_Estado /\ [][C19_Passo]_vars

\* A seeded call and then an unseeded one, both returned: one seeding in all.
C19_Witness ==
    /\ Len(historico) = 2
    /\ fila[1].seed # None
    /\ fila[2].seed = None
    /\ fila[2].n_pacientes = MaxPacientes
    /\ Len(SementesDe(1)) = 1
    /\ Len(SementesDe(2)) = 0
    /\ \E x \in 1..Len(eventos) : eventos[x].k = 2 /\ eventos[x].tipo = "draw"

C20_Passo ==
    /\ pc \in AposRetorno =>
          /\ instancia' = instancia \/ (pc = "salvar_matriz" /\ instancia' = SemInstancia)
          /\ historico' = historico
          /\ pacientes' = pacientes \/ pc = "salvar_matriz"
    /\ (pc = "salvar_matriz" /\ pc' \in {"inicio", "fim"}) =>
          LET nome == instancia.metadata.nome
              lido == json_load(disco'.json[nome].dados)
          IN  /\ \A t \in Tipos : nome \in DOMAIN disco'[t] /\ disco'[t][nome].completo
              /\ lido.equipes = instancia.equipes
              /\ lido.pacientes = instancia.pacientes
              /\ lido.matriz_tempos = instancia.matriz_tempos
              /\ lido.metadata.data_geracao = instancia.metadata.data_geracao
              /\ read_csv(disco'.equipes[nome].dados).linhas = lido.equipes
              /\ read_csv(disco'.pacientes[nome].dados).linhas = lido.pacientes
              /\ read_csv_matriz(disco'.matriz[nome].dados).linhas = lido.matriz_tempos

\* C20: the instance gerar_instancia returned stays as it is while
\* salvar_instancia writes it, and when the last of the four files of a
\* configuration is written the JSON document and the three tables hold the
\* same teams, patients and matrix, those of the instance.
C20_Imutavel == [][C20_Passo]_vars

\* A single call of two teams and two different patients written to the end.
C20_Witness ==
    /\ pc = "fim"
    /\ Len(fila) = 1
    /\ Len(historico[1].instancia.equipes) = 2
    /\ Len(historico[1].instancia.pacientes) = 2
    /\ historico[1].instancia.pacientes[1].lat # historico[1].instancia.pacientes[2].lat
    /\ read_csv(disco.pacientes[fila[1].nome].dados).linhas =
          json_load(disco.json[fila[1].nome].dados).pacientes

\* A unit of work of calcular_matriz_distancias: <<0, i>> is the iteration of
\* the first loop for the patient at position i, <<i, j>> the iteration of
\* the nested loops for the patients at positions i and j.
ExecutarUnidade(m, u, es, ps) ==
    IF u[1] = 0
    THEN PreencherDeposito(m, u[2], es[1].lat, es[1].lon, SubSeq(ps, 1, u[2]))
    ELSE PreencherPares(m, << u >>, ps)

RECURSIVE ExecutarEmOrdem(_, _, _, _)
\* The units of ordem run one after the other on matrix m.
ExecutarEmOrdem(m, ordem, es, ps) ==
    IF ordem = << >> THEN m
    ELSE ExecutarEmOrdem(ExecutarUnidade(m, Head(ordem), es, ps), Tail(ordem), es, ps)

\* The units in the order of the code: the first loop, then the nested loops.
OrdemDoCodigo(n) == [i \in 1..n |-> <<0, i>>] \o ParesEmOrdem(n)

\* The units row by row, the rows in the order p: the depot cell of a row,
\* then its pairs.
RECURSIVE OrdemPorLinhas(_, _)
OrdemPorLinhas(p, n) ==
    IF p = << >> THEN << >>
    ELSE << <<0, Head(p)>> >> \o [j \in 1..n |-> <<Head(p), j>>]
         \o OrdemPorLinhas(Tail(p), n)

\* The units column by column, the pairs before the depot cells.
OrdemPorColunas(n) ==
    [x \in 1..(n * n) |-> <<((x - 1) % n) + 1, ((x - 1) \div n) + 1>>]
    \o [i \in 1..n |-> <<0, n + 1 - i>>]

Permutacoes(n) == {p \in [1..n -> 1..n] : \A a, b \in 1..n : p[a] = p[b] => a = b}

\* The orders of computation compared: that of the code and its reverse, the
\* rows in every order, and the columns.
Ordens(n) ==
    {OrdemDoCodigo(n), Inverter(OrdemDoCodigo(n)), OrdemPorColunas(n)}
    \cup {OrdemPorLinhas(p, n) : p \in Permutacoes(n)}

\* A matrix of n+1 rows and columns with the same value in every cell.
MatrizDe(v, n) == [i \in 0..n |-> [j \in 0..n |-> v]]

\* The cells a unit writes: those it changes in a matrix of a value that is
\* no travel time.
CelulasEscritas(u, es, ps) ==
    LET n == Len(ps)
        depois == ExecutarUnidade(MatrizDe(-1, n), u, es, ps)
    IN  {c \in (0..n) \X (0..n) : depois[c[1]][c[2]] # -1}

\* The coordinates of node i: the depot (the first team) or patient i.
No(i, es, ps) == IF i = 0 THEN [lat |-> es[1].lat, lon |-> es[1].lon]
                 ELSE [lat |-> ps[i].lat, lon |-> ps[i].lon]

C21_Passo ==
    (pc = "matriz" /\ pc' = "montar") =>
       LET n == Len(pacientes)
           codigo == OrdemDoCodigo(n)
           escritas == [x \in 1..Len(codigo) |->
                           CelulasEscritas(codigo[x], equipes, pacientes)]
       IN  /\ \A c \in (0..n) \X (0..n) :
                 Cardinality({x \in 1..Len(codigo) : c \in escritas[x]})
                    = (IF c[1] = c[2] THEN 0 ELSE 1)
           /\ \A x \in 1..Len(codigo) :
                 LET emBranco == ExecutarUnidade(MatrizDe(-1, n), codigo[x], equipes, pacientes)
                     naMatriz == ExecutarUnidade(matriz', codigo[x], equipes, pacientes)
                 IN  \A c \in escritas[x] : emBranco[c[1]][c[2]] = naMatriz[c[1]][c[2]]
           /\ \A i, j \in 0..n :
                 i # j => matriz'[i][j] = TempoEntre(No(i, equipes, pacientes),
                                                     No(j, equipes, pacientes))
           /\ \A ordem \in Ordens(n) :
                 LET feita == ExecutarEmOrdem(MatrizDe(0, n), ordem, equipes, pacientes)
                 IN  feita = matriz' /\ MatrizSimetrica(feita, n)

\* C21: in calcular_matriz_distancias every off-diagonal cell is written by
\* exactly one unit of work and no diagonal cell is written; what a unit
\* writes does not depend on the matrix it finds, and the value of cell
\* (i, j) is the travel time between the coordinates of nodes i and j; so the
\* units run in another order (reversed, row by row with the rows in any
\* order, column by column) give the very matrix the code returns.
C21_OrdemIndiferente == [][C21_Passo]_vars

\* The matrix of two patients at different places, which the rows computed in
\* the other order also give.
C21_Witness ==
    /\ pc = "montar"
    /\ Len(pacientes) = 2
    /\ matriz[1][2] > 0
    /\ matriz[0][1] # matriz[0][2]
    /\ OrdemPorLinhas(<<2, 1>>, 2) # OrdemPorLinhas(<<1, 2>>, 2)
    /\ ExecutarEmOrdem(MatrizDe(0, 2), OrdemPorLinhas(<<2, 1>>, 2), equipes, pacientes)
          = matriz

\* The draws of configuration j, in order.
SorteiosDe(j) == SelectSeq(eventos, LAMBDA e : e.k = j /\ e.tipo = "draw")

C22_Estado ==
    \A j \in 1..k :
        LET sorteios == SorteiosDe(j)
            np == 6 * fila[j].n_pacientes
        IN  /\ \A x \in 1..Len(sorteios) :
                  IF x <= np
                  THEN /\ sorteios[x].i = ((x - 1) \div 6) + 1
                       /\ sorteios[x].oque = OrdemDosSorteios[((x - 1) % 6) + 1]
                  ELSE /\ sorteios[x].i = x - np
                       /\ sorteios[x].oque = "capacidade"
            /\ Len(sorteios) > 0 => Len(sorteios) >= np
            /\ (j < k \/ pc \in AposRetorno \cup {"fim"}) =>
                  \/ Len(sorteios) \in {0, np}
                  \/ \E h \in 1..Len(historico) :
                        /\ historico[h].k = j
                        /\ Len(sorteios) = np + Len(historico[h].instancia.equipes)

\* The events a step adds.
EventosNovos == SubSeq(eventos', Len(eventos) + 1, Len(eventos'))

C22_Passo ==
    /\ pc = "pacientes" =>
          LET centro_lat == mean([i \in 1..Len(equipes) |-> equipes[i].lat])
              centro_lon == mean([i \in 1..Len(equipes) |-> equipes[i].lon])
          IN  /\ Len(pacientes') = cfg.n_pacientes
              /\ np_random' = AvancarN(np_random, 6 * cfg.n_pacientes)
              /\ \A i \in 1..Len(pacientes') :
                    LET s == AvancarN(np_random, 6 * (i - 1))
                        p == pacientes'[i]
                    IN  /\ p.lat = round6(np_random_normal(centro_lat, s).val)
                        /\ p.lon = round6(np_random_normal(centro_lon, AvancarN(s, 1)).val)
                        /\ p.modalidade = sortear_modalidade(AvancarN(s, 2)).val
                        /\ <<p.janela_inicio, p.janela_fim>> =
                              JANELAS_HORARIO[sortear_janela_tempo(AvancarN(s, 3)).val]
                        /\ p.frequencia =
                              gerar_frequencia(p.modalidade, AvancarN(s, 4)).val[1]
                        /\ p.tempo_servico =
                              gerar_tempo_servico(p.modalidade, AvancarN(s, 5)).val
    /\ pc = "montar" =>
          /\ np_random' = AvancarN(np_random, Len(equipes))
          /\ \A i \in 1..Len(equipes) :
                instancia'.equipes[i].capacidade_diaria =
                   np_random_randint(CAPACIDADE_EQUIPE_MIN, CAPACIDADE_EQUIPE_MAX + 1,
                                     AvancarN(np_random, i - 1)).val
    /\ pc \notin {"pacientes", "montar"} =>
          /\ \A x \in 1..Len(EventosNovos) : EventosNovos[x].tipo # "draw"
          /\ pc # "inicio" => np_random' = np_random

\* C22: within one generation the stream is consumed in one order: for
\* patient 1, then 2, ... then n, the draws are latitude offset, longitude
\* offset, modality, window, frequency, service minutes, each value being
\* that of the stream at its place in that order; after the last patient one
\* capacity is drawn per team in team order; loading the registry, building
\* the matrix and writing the instance draw nothing and leave the stream as
\* it is.
C22_OrdemDoFluxo == []C22_Estado /\ [][C22_Passo]_vars

\* An instance of two patients and three teams assembled: fifteen draws, the
\* thirteenth the capacity of the first team.
C22_Witness ==
    /\ pc = "salvar_json"
    /\ Len(pacientes) = 2
    /\ Len(instancia.equipes) = 3
    /\ LET sorteios == SorteiosDe(k)
       IN  /\ Len(sorteios) = 15
           /\ sorteios[7].oque = "lat" /\ sorteios[7].i = 2
           /\ sorteios[13].oque = "capacidade" /\ sorteios[13].i = 1
    /\ pacientes[1].lat # pacientes[2].lat

\* gerar_instancia from the stream in state s (after lines 559-560) to its
\* return, at time 0, when no stage raises.
gerar_instancia_de(c, arq, s) ==
    LET r == carregar_equipes_emad(arq)
        n_eq == limitar_equipes(c.n_equipes, Len(r.df))
        eqs == head(r.df, n_eq)
        centro_lat == mean([i \in 1..Len(eqs) |-> eqs[i].lat])
        centro_lon == mean([i \in 1..Len(eqs) |-> eqs[i].lon])
        pacs == gerar_pacientes(c.n_pacientes, << >>, centro_lat, centro_lon, s)
        mat == calcular_matriz_distancias(eqs, pacs.pacientes)
        caps == SortearCapacidades(Len(eqs), pacs.st)
    IN  MontarInstancia(c, n_eq, eqs, pacs.pacientes, mat, caps.capacidades, 0)

\* A standalone call of gerar_instancia with the stream found in state s.
gerar_instancia_isolada(c, arq, s) == gerar_instancia_de(c, arq, semear(c.seed, s))

\* The states of the stream.
Fluxos == 0..(RngMod - 1)

\* Two states of the stream from which one patient comes out differently.
DependeDoFluxo ==
    \E s1, s2 \in Fluxos :
        gerar_pacientes(1, << >>, 0, 0, s1).pacientes
           # gerar_pacientes(1, << >>, 0, 0, s2).pacientes

C23_Passo ==
    /\ (pc = "montar" /\ pc' = "salvar_json") =>
          /\ cfg.seed # None =>
                \A s \in EstadosIniciais \cup {np_random, np_random'} :
                    SemData(instancia') = gerar_instancia_isolada(cfg, arquivos, s)
          /\ cfg.seed = None =>
                LET sorteios == 6 * cfg.n_pacientes
                IN  /\ \E s \in Fluxos : AvancarN(s, sorteios) = np_random
                    /\ \A s \in Fluxos :
                          AvancarN(s, sorteios) = np_random =>
                             SemData(instancia') = gerar_instancia_isolada(cfg, arquivos, s)
    /\ DependeDoFluxo

\* C23: the instance a call with a seed (not None) returns, in a batch or
\* after any other call, is the one a standalone call with the same
\* configuration returns from whatever state of the stream (timestamp
\* aside); the instance a call with seed None returns is the one generated
\* from the state the stream was in when the call began, and that state
\* makes a difference.
C23_IndependeDoFluxo == [][C23_Passo]_vars

\* The third configuration of the batch returned, after the draws of the
\* first two, the instance a standalone call returns.
C23_Witness ==
    /\ pc = "salvar_json"
    /\ fila = instancias_config
    /\ k = 3
    /\ Len(instancia.pacientes) = 2
    /\ Len(instancia.equipes) = 3
    /\ \E s \in EstadosIniciais :
          /\ s # np_random
          /\ SemData(instancia) = gerar_instancia_isolada(cfg, arquivos, s)

\* Calls with the same seed (not None) and team count, the first for fewer
\* patients than the second.
MenorDe(a, b) ==
    /\ a.cfg.seed # None
    /\ a.cfg.seed = b.cfg.seed
    /\ a.cfg.n_equipes = b.cfg.n_equipes
    /\ a.cfg.n_pacientes < b.cfg.n_pacientes

\* The top-left block of n rows and columns of a matrix (a list of rows).
Bloco(mt, n) == [i \in 1..n |-> [j \in 1..n |-> mt[i][j]]]

\* C24: for a fixed seed (not None), registry and team count and n < n', the
\* first n patients generated for n' are the n patients generated for n and
\* the top-left (n+1) x (n+1) block of the larger matrix is the smaller
\* matrix; the capacities are the draws that come after all the patients, at
\* places 6n+1.. and 6n'+1.. of the stream, and so not bound to be equal.
C24_Prefixo ==
    \A a, b \in 1..Len(historico) :
        MenorDe(historico[a], historico[b]) =>
           LET menor == historico[a].instancia
               maior == historico[b].instancia
               n == historico[a].cfg.n_pacientes
               n2 == historico[b].cfg.n_pacientes
               semente == np_random_seed(historico[a].cfg.seed)
           IN  /\ Len(menor.pacientes) = n
               /\ Len(maior.pacientes) = n2
               /\ SubSeq(maior.pacientes, 1, n) = menor.pacientes
               /\ Len(menor.matriz_tempos) = n + 1
               /\ Bloco(maior.matriz_tempos, n + 1) = menor.matriz_tempos
               /\ Len(menor.equipes) = Len(maior.equipes)
               /\ \A i \in 1..Len(menor.equipes) :
                     /\ menor.equipes[i].capacidade_diaria =
                           np_random_randint(CAPACIDADE_EQUIPE_MIN, CAPACIDADE_EQUIPE_MAX + 1,
                                             AvancarN(semente, 6 * n + i - 1)).val
                     /\ maior.equipes[i].capacidade_diaria =
                           np_random_randint(CAPACIDADE_EQUIPE_MIN, CAPACIDADE_EQUIPE_MAX + 1,
                                             AvancarN(semente, 6 * n2 + i - 1)).val

\* The same seeded call for one patient and then for two: the same first
\* patient, and another capacity for the first team.
C24_Witness ==
    /\ Len(historico) = 2
    /\ MenorDe(historico[1], historico[2])
    /\ historico[1].cfg.n_pacientes = 1
    /\ historico[2].cfg.n_pacientes = 2
    /\ historico[2].instancia.pacientes[1] = historico[1].instancia.pacientes[1]
    /\ historico[2].instancia.matriz_tempos[1][3] > 0
    /\ historico[1].instancia.equipes[1].capacidade_diaria
          # historico[2].instancia.equipes[1].capacidade_diaria

\* The travel time in minutes between two places at 25 km/h.
Minutos(a, b) == (haversine(a.lon, a.lat, b.lon, b.lat) * 60) \div 25

\* A coordinate with no more than six decimal places.
SeisCasas(x) == x % UnidadesPorMicrograu = 0

\* C25: the matrix of an instance is a function of the coordinates stored in
\* it: cell (0, i) is the travel time (distance / 25 km/h * 60) between the
\* stored coordinates of the first team and of patient i, cell (i, j) that
\* between the stored coordinates of patients i and j, the stored patient
\* coordinates having six decimal places; and the matrix computed again from
\* the team and patient tables on storage is the matrix written.
C25_MatrizDasCoordenadas ==
    /\ pc = "salvar_json" =>
          LET es == instancia.equipes
              ps == instancia.pacientes
              mt == instancia.matriz_tempos
              n == Len(ps)
          IN  /\ Len(mt) = n + 1
              /\ mt[1][1] = 0
              /\ \A i \in 1..n :
                    /\ SeisCasas(ps[i].lat) /\ SeisCasas(ps[i].lon)
                    /\ mt[1][i + 1] = Minutos(es[1], ps[i])
                    /\ mt[i + 1][1] = Minutos(es[1], ps[i])
                    /\ \A j \in 1..n : mt[i + 1][j + 1] = Minutos(ps[i], ps[j])
              /\ mt = tolist(calcular_matriz_distancias(es, ps))
    /\ pc = "salvar_matriz" =>
          LET es == read_csv(disco.equipes[cfg.nome].dados).linhas
              ps == read_csv(disco.pacientes[cfg.nome].dados).linhas
          IN  tolist(calcular_matriz_distancias(es, ps))
                 = json_load(disco.json[cfg.nome].dados).matriz_tempos

\* A seeded instance whose first patient was drawn off the microdegree grid:
\* the depot cell is the travel time to the stored, rounded place and not the
\* one to the place drawn.
C25_Witness ==
    /\ pc = "salvar_matriz"
    /\ cfg.seed # None
    /\ LET s == np_random_seed(cfg.seed)
           lat == np_random_normal(mean([i \in 1..Len(equipes) |-> equipes[i].lat]), s)
           lon == np_random_normal(mean([i \in 1..Len(equipes) |-> equipes[i].lon]), lat.st)
           sorteado == [lat |-> lat.val, lon |-> lon.val]
       IN  /\ ~SeisCasas(lat.val)
           /\ instancia.pacientes[1].lat = round6(lat.val)
           /\ instancia.matriz_tempos[1][2] = Minutos(instancia.equipes[1], instancia.pacientes[1])
           /\ instancia.matriz_tempos[1][2] # Minutos(instancia.equipes[1], sorteado)

Min(a, b) == IF a < b THEN a ELSE b

\* What the load gives for each registry.
CargaDe == [a \in Registros |-> carregar_equipes_emad(a)]

\* The position of the row of team code in the team table of the registry.
LinhaDe(code) ==
    CHOOSE x \in 1..Len(arquivos.tbEquipe.linhas) :
        arquivos.tbEquipe.linhas[x].CO_EQUIPE = code

\* C26: in every instance gerar_instancia returned the counts of the
\* metadata agree with the content: metadata.n_equipes is the length of the
\* team list, the lesser of the team count asked for and the teams
\* available, the teams being the first of the registry in its order with
\* ids 1..m; metadata.n_pacientes is the number of patients asked for, the
\* length of the patient list and the matrix dimension less one, the
\* patients having ids 1..n in list order.
C26_Contagens ==
    LET registro == CargaDe[arquivos].df
    IN
    \A h \in 1..Len(historico) :
        LET inst == historico[h].instancia
            c == historico[h].cfg
            m == Len(inst.equipes)
            n == Len(inst.pacientes)
        IN  /\ inst.metadata.n_equipes = m
            /\ m = Min(c.n_equipes, historico[h].disponiveis)
            /\ historico[h].disponiveis = Len(registro)
            /\ \A i \in 1..m :
                  /\ inst.equipes[i].id = i
                  /\ inst.equipes[i].codigo_equipe = registro[i].CO_EQUIPE
                  /\ inst.equipes[i].codigo_unidade = registro[i].CO_UNIDADE
                  /\ \A j \in 1..m :
                        i < j => LinhaDe(inst.equipes[i].codigo_equipe)
                                    < LinhaDe(inst.equipes[j].codigo_equipe)
            /\ inst.metadata.n_pacientes = n
            /\ n = c.n_pacientes
            /\ Len(inst.matriz_tempos) = n + 1
            /\ \A i \in 1..(n + 1) : Len(inst.matriz_tempos[i]) = n + 1
            /\ \A i \in 1..n : inst.pacientes[i].id = i
            /\ {inst.pacientes[i].id : i \in 1..n} = 1..n

\* Two teams asked for and three available, two patients: the instance has
\* the first two teams of the registry, after a call that asked for one.
C26_Witness ==
    /\ Len(historico) >= 2
    /\ historico[2].cfg.n_equipes = 2
    /\ historico[2].disponiveis = 3
    /\ historico[2].instancia.metadata.n_equipes = 2
    /\ historico[2].instancia.metadata.n_pacientes = 2
    /\ historico[1].cfg.n_equipes = 1
    /\ Len(historico[1].instancia.equipes) = 1

\* The registry files are there and the load returns no team.
SemEquipesDisponiveis ==
    /\ ~RegistroFaltando
    /\ CargaDe[arquivos].ok
    /\ CargaDe[arquivos].df = << >>

\* The registry files are there and no facility row matches a team, so that
\* the load itself raises.
SemEstabelecimentos ==
    /\ ~RegistroFaltando
    /\ ~CargaDe[arquivos].ok

\* C27: when the registry yields no team with valid coordinates,
\* gerar_instancia never returns an instance and nothing is persisted for
\* that configuration or any later one.  When the load returns an empty
\* table the team count is clamped to 0 and the head is empty; a call for
\* one patient or more then generates its patients and fails in the
\* construction of the matrix, for want of a first team to be the depot (a
\* call for no patient fails sooner, at the modality percentages).  When no
\* facility row matches a team the load itself fails.
C27_SemEquipes ==
    (SemEquipesDisponiveis \/ SemEstabelecimentos) =>
       /\ historico = << >>
       /\ instancia = SemInstancia
       /\ disco = PastaVazia
       /\ k = 1
       /\ pc \in {"inicio", "carregar", "demografia", "pacientes", "matriz", "abortado"}
       /\ SemEstabelecimentos =>
             /\ pc \in {"inicio", "carregar", "abortado"}
             /\ pc = "abortado" => erro = "KeyError"
       /\ SemEquipesDisponiveis =>
             /\ pc \in {"demografia", "pacientes", "matriz"} =>
                   n_equipes = 0 /\ equipes = << >> /\ equipes_df = << >>
             /\ pc = "matriz" => Len(pacientes) = cfg.n_pacientes /\ cfg.n_pacientes >= 1
             /\ pc = "abortado" =>
                   /\ n_equipes = 0
                   /\ cfg.n_pacientes >= 1 =>
                         /\ erro = "IndexError"
                         /\ eventos[Len(eventos)].oque = "matriz"
                         /\ Len(pacientes) = cfg.n_pacientes
                   /\ cfg.n_pacientes < 1 =>
                         /\ erro = "ZeroDivisionError"
                         /\ \A x \in 1..Len(eventos) : eventos[x].oque # "matriz"

\* The batch stopped at the matrix of its first configuration, the registry
\* having teams but none with valid coordinates.
C27_Witness ==
    /\ pc = "abortado"
    /\ erro = "IndexError"
    /\ fila = instancias_config
    /\ arquivos.tbEquipe.linhas = EquipesSemCoordenadas
    /\ n_equipes = 0
    /\ Len(pacientes) = 2
    /\ disco = PastaVazia

\* C28: gerar_instancia called with n_pacientes = 0 returns no instance (of
\* an empty patient list and a 1 x 1 matrix, or any other): once the teams
\* are loaded it generates no patient and raises ZeroDivisionError at the
\* modality percentages, after the patients step and before the matrix is
\* built, so that no instance is assembled or persisted for that
\* configuration.
C28_SemPacientes ==
    /\ cfg.n_pacientes = 0 =>
          /\ pc \in {"inicio", "carregar", "demografia", "pacientes", "abortado"}
          /\ pacientes = << >>
          /\ matriz = SemMatriz
          /\ instancia = SemInstancia
          /\ NenhumaSaida(cfg.nome)
          /\ \A h \in 1..Len(historico) : historico[h].k < k
          /\ \A x \in 1..Len(eventos) :
                eventos[x].k = k => eventos[x].oque \notin {"matriz", "montar"}
                                    /\ eventos[x].tipo # "draw"
          /\ pc = "abortado" =>
                \/ /\ erro \in {"FileNotFoundError", "KeyError"}
                   /\ eventos[Len(eventos)].oque = "carregar"
                \/ /\ erro = "ZeroDivisionError"
                   /\ eventos[Len(eventos)].oque = "pacientes"
                   /\ eventos[Len(eventos)].k = k
    /\ \A h \in 1..Len(historico) :
          /\ historico[h].cfg.n_pacientes >= 1
          /\ historico[h].instancia.pacientes # << >>
          /\ Len(historico[h].instancia.matriz_tempos) >= 2

\* A call for two patients was written whole, and the call for none that
\* came after it stopped at the percentages, two teams being loaded.
C28_Witness ==
    /\ pc = "abortado"
    /\ erro = "ZeroDivisionError"
    /\ k = 2
    /\ cfg.n_pacientes = 0
    /\ Len(equipes) = 2
    /\ pacientes = << >>
    /\ SaidaCompleta(fila[1].nome)
    /\ NenhumaSaida(cfg.nome)

\* C29: every patient generated can be served inside its own window and
\* inside one team day: its window starts before it ends, both ends lie in
\* 420..1080, its service time is no more than the length of its window and
\* no more than the daily capacity of any team of its instance; no service
\* time the tables allow exceeds a window or the least capacity.
C29_Atendivel ==
    /\ \A p \in TodosPacientes :
          /\ p.janela_inicio < p.janela_fim
          /\ p.janela_inicio \in 420..1080
          /\ p.janela_fim \in 420..1080
          /\ p.tempo_servico >= 1
          /\ p.tempo_servico <= p.janela_fim - p.janela_inicio
          /\ p.tempo_servico <= CAPACIDADE_EQUIPE_MIN
    /\ \A h \in 1..Len(historico) :
          LET inst == historico[h].instancia
          IN  \A i \in 1..Len(inst.pacientes) : \A e \in 1..Len(inst.equipes) :
                 inst.pacientes[i].tempo_servico <= inst.equipes[e].capacidade_diaria
    /\ \A m \in DOMAIN TEMPO_SERVICO : \A j \in DOMAIN JANELAS_HORARIO :
          /\ TEMPO_SERVICO[m].max <= JANELAS_HORARIO[j][2] - JANELAS_HORARIO[j][1]
          /\ TEMPO_SERVICO[m].max <= CAPACIDADE_EQUIPE_MIN

\* An instance of three teams with an Intensive patient served for more than
\* an hour in a five-hour window.
C29_Witness ==
    \E h \in 1..Len(historico) :
        LET inst == historico[h].instancia
        IN  /\ Len(inst.equipes) = 3
            /\ \E i \in 1..Len(inst.pacientes) :
                  /\ inst.pacientes[i].modalidade = "AD3"
                  /\ inst.pacientes[i].tempo_servico > 60
                  /\ inst.pacientes[i].janela_fim - inst.pacientes[i].janela_inicio = 300

\* The kind label of a type code.
RotuloDe(codigo) ==
    CASE codigo = 22 -> "EMAD I"
      [] codigo = 46 -> "EMAD II"
      [] codigo = 23 -> "EMAP"
      [] codigo = 77 -> "EMAP-R"
      [] OTHER -> "DESCONHECIDO"

\* The rows of the team table of the registry.
LinhasDeEquipes ==
    {arquivos.tbEquipe.linhas[x] : x \in 1..Len(arquivos.tbEquipe.linhas)}

\* C30: every team of every assembled instance is an active home-care team
\* of a known kind: its type code is one of 22, 46, 23, 77, its kind label
\* the one of that code (EMAD I, EMAD II, EMAP, EMAP-R) and never
\* 'DESCONHECIDO', and it is a row of the team table with that code and unit
\* and no deactivation date.
C30_EquipesAtivas ==
    \A h \in 1..Len(historico) :
        LET inst == historico[h].instancia
        IN  \A i \in 1..Len(inst.equipes) :
               LET e == inst.equipes[i]
               IN  /\ e.tipo_codigo \in {22, 46, 23, 77}
                   /\ e.tipo = RotuloDe(e.tipo_codigo)
                   /\ e.tipo # "DESCONHECIDO"
                   /\ \E r \in LinhasDeEquipes :
                         /\ r.CO_EQUIPE = e.codigo_equipe
                         /\ r.CO_UNIDADE = e.codigo_unidade
                         /\ r.TP_EQUIPE = e.tipo_codigo
                         /\ r.DT_DESATIVACAO = Vazio

\* An instance of three teams of three kinds, from a registry that also has
\* a deactivated home-care team and a team of another type.
C30_Witness ==
    /\ \E r \in LinhasDeEquipes : r.TP_EQUIPE = 77 /\ r.DT_DESATIVACAO # Vazio
    /\ \E r \in LinhasDeEquipes : r.TP_EQUIPE = 70
    /\ \E h \in 1..Len(historico) :
          LET inst == historico[h].instancia
          IN  /\ Len(inst.equipes) = 3
              /\ {inst.equipes[i].tipo : i \in 1..3} = {"EMAD I", "EMAP", "EMAD II"}
====
